---- MODULE Spec2Model ----
(***************************************************************************)
(* Power Watchdog Service (OS/01_SCRIPTS/power_watchdog_service.py):       *)
(* the poll loop `main`, one cycle `run_once`, the seen-log, the status    *)
(* file and the matcher, as a state machine.                               *)
(*                                                                         *)
(* Text (titles, uids, links, keywords, the seen-log file) is a sequence   *)
(* of Unicode code points, so that lower-casing, substring search and      *)
(* line splitting are computed as Python computes them.                    *)
(***************************************************************************)
EXTENDS Integers, Sequences, FiniteSets, TLC

VARIABLES
    pc,            \* position of the process in main / run_once
    now,           \* wall clock, one unit per sleep (now_iso)
    configFile,    \* content of CONFIG_PATH
    seenLog,       \* content of SEEN_PATH (text)
    status,        \* content of STATUS_PATH (JSON object), key -> value
    faults,        \* number of file writes that have failed so far
    pool,          \* the responses the network can give to a fetch
    cfg,           \* main: cfg (the loaded config)
    interval,      \* main: interval
    sleepFor,      \* argument of the pending time.sleep
    seen,          \* main/run_once: seen (in-memory set of uids)
    srcIdx,        \* run_once: position of `for src in sources` (1-based)
    name,          \* run_once: name of the current source
    entries,       \* run_once: entries of the current source
    entSrc,        \* history: position of the source `entries` came from
    entIdx,        \* run_once / prime_seen: position in the entries loop
    checked,       \* run_once: checked
    hits,          \* run_once: hits
    last_error,    \* run_once: last_error
    latest_items,  \* run_once: latest_items
    exc,           \* the exception run_once raised, for main's handler
    notifs,        \* history: every call of notify, in order
    fetchLog,      \* history: source positions fetched in this cycle
    errLog,        \* history: per-source errors recorded in this cycle
    primedLog,     \* history: source positions primed in this cycle
    seenAtStart,   \* history: the set load_seen returned for this cycle
    outcome,       \* history: how the last run_once ended
    delivery,      \* history: what became of the alert and the sound of the
                   \* entry at hand, until the loop takes its next step
    matchTitle,    \* match: title
    matchLogic,    \* match: cfg.get("match_logic")
    matchResult,   \* match: the value returned
    stPc,          \* position of a call of update_status / write_json_atomic
    stPath,        \* content of STATUS_PATH, as text
    stTmp,         \* content of STATUS_PATH + ".tmp", as text
    stKwargs,      \* update_status: kwargs
    stBase,        \* update_status: base
    stPrev,        \* history: the status document before the call
    stRead,        \* what an external reader of STATUS_PATH got last
    ended,         \* the signal that ended the process, and how it ended
    fdPc,          \* one source: position in lines 364-368 and 393-394
    fdUrl,         \* one source: url
    fdMax,         \* one source: max_bytes
    fdResp,        \* one source: what the network has for the url
    fdData,        \* one source: data
    fdCalls,       \* history: the extractors called with data, in order
    fdEntries,     \* one source: entries
    fdTier,        \* history: the part of parse_feed that made the entries
    fdError        \* one source: the exception caught at line 393, as text

\* the process main
procVars == <<pc, now, configFile, seenLog, status, faults, pool, cfg, interval,
              sleepFor, seen, srcIdx, name, entries, entSrc, entIdx, checked,
              hits, last_error, latest_items, exc, notifs, fetchLog, errLog,
              primedLog, seenAtStart, outcome, delivery, ended>>

\* one call of match
matchVars == <<matchTitle, matchLogic, matchResult>>

\* calls of update_status next to a reader of the status file
statusVars == <<stPc, stPath, stTmp, stKwargs, stBase, stPrev, stRead>>

\* one source of one cycle, from its payload to its entries
feedVars == <<fdPc, fdUrl, fdMax, fdResp, fdData, fdCalls, fdEntries, fdTier, fdError>>

\* what is followed call by call, outside the process
offstage == <<matchVars, statusVars, feedVars>>

vars == <<procVars, offstage>>

-----------------------------------------------------------------------------
(* Bounds of the model *)

MaxCycles == 2
MaxFaults == 1
BigLen == 82

-----------------------------------------------------------------------------
(* Program constants *)

NL == 10
PrimeCap == 50
EntryCap == 80
LatestCap == 10
DisabledSleep == 60
MinInterval == 30
MaxInterval == 3600
DefaultInterval == 300
DefaultMaxBytes == 2000000
Pid == 4242

None == <<>>

\* F of the value of v
With(v, F(_)) == CHOOSE r \in {F(x) : x \in {v}} : TRUE

Min(a, b) == IF a < b THEN a ELSE b
Max(a, b) == IF a > b THEN a ELSE b

-----------------------------------------------------------------------------
(* Text *)

\* the lower-case letter of a capital: ASCII A-Z and Greek capitals, whose
\* small letters lie 32 code points above
LowerChar(c) ==
    IF (c >= 65 /\ c <= 90) \/ (c >= 913 /\ c <= 939 /\ c # 930)
    THEN c + 32 ELSE c

\* capital sigma, small sigma, final small sigma
Sigma == 931
SmallSigma == 963
FinalSigma == 962

\* letters that have a case, among the code points used
Cased(c) ==
    \/ (c >= 65 /\ c <= 90) \/ (c >= 97 /\ c <= 122)
    \/ (c >= 913 /\ c <= 939 /\ c # 930) \/ (c >= 945 /\ c <= 971)

\* characters str.lower looks through when it decides on a final sigma:
\* apostrophe, full stop, colon
CaseIgnorable(c) == c \in {39, 46, 58}

\* str.lower writes a capital sigma as a final sigma when a cased letter
\* stands before it and none after it
IsFinalSigma(s, i) ==
    /\ \E j \in 1..(i - 1) :
          Cased(s[j]) /\ \A k \in (j + 1)..(i - 1) : CaseIgnorable(s[k])
    /\ ~\E j \in (i + 1)..Len(s) :
          Cased(s[j]) /\ \A k \in (i + 1)..(j - 1) : CaseIgnorable(s[k])

\* str.lower
Lower(s) ==
    [i \in 1..Len(s) |->
        IF s[i] = Sigma
        THEN IF IsFinalSigma(s, i) THEN FinalSigma ELSE SmallSigma
        ELSE LowerChar(s[i])]

\* two characters that differ in case at most
Fold(c) == IF c = FinalSigma THEN SmallSigma ELSE LowerChar(c)

\* k is a substring of t when case is ignored, character by character
ContainsNoCase(t, k) ==
    \E i \in 0..(Len(t) - Len(k)) :
        \A j \in 1..Len(k) : Fold(t[i + j]) = Fold(k[j])

\* `k in t` for strings
Contains(t, k) ==
    \E i \in 0..(Len(t) - Len(k)) : SubSeq(t, i + 1, i + Len(k)) = k

\* the characters str.splitlines breaks a line at
LineBreaks == {10, 11, 12, 13, 28, 29, 30, 133, 8232, 8233}

\* a line of s ends at position i: a line break, the CR of a CR LF excepted
IsLineEnd(s, i) ==
    /\ s[i] \in LineBreaks
    /\ ~(s[i] = 13 /\ i < Len(s) /\ s[i + 1] = 10)

\* the positions at which a line of s ends
LineEnds(s) == {i \in 1..Len(s) : IsLineEnd(s, i)}

\* the position before the first character of the line that ends at e: the
\* nearest line end before e, 0 if there is none
LineStart(s, e) ==
    LET back == CHOOSE d \in 1..e :
                    /\ (d = e \/ IsLineEnd(s, e - d))
                    /\ \A k \in 1..(d - 1) : ~IsLineEnd(s, e - k)
    IN  e - back

\* the line that ends at e, without its line break
LineAt(s, e) ==
    LET start == LineStart(s, e) IN
    IF s[e] = 10 /\ e - 1 > start /\ s[e - 1] = 13
    THEN SubSeq(s, start + 1, e - 2)
    ELSE SubSeq(s, start + 1, e - 1)

\* set(s.splitlines()): the terminated lines, and what follows the last break
SplitLines(s) ==
    LET last == LineStart(s, Len(s) + 1) IN
    {LineAt(s, e) : e \in LineEnds(s)}
        \cup (IF last < Len(s) THEN {SubSeq(s, last + 1, Len(s))} ELSE {})

Range(f) == {f[i] : i \in DOMAIN f}

-----------------------------------------------------------------------------
(* Seen-log *)

\* load_seen: set(SEEN_PATH.read_text().splitlines()), set() if no file
load_seen(file) == SplitLines(file)

\* a write that opens the log with "w": the uid replaces the text
overwrite_seen(file, uid, ok) == IF ok THEN uid \o <<NL>> ELSE file

\* append_seen: f.write(uid + "\n"); a failing write is swallowed
append_seen(file, uid, ok) == IF ok THEN file \o uid \o <<NL>> ELSE file

-----------------------------------------------------------------------------
(* Matcher *)

\* any(k and k in title_l for k in keywords)
AnyHit(title_l, keywords) ==
    \E i \in DOMAIN keywords :
        keywords[i] # <<>> /\ Contains(title_l, Lower(keywords[i]))

\* a match that asks for no location
matchTopicOnly(title, logic) ==
    LET title_l == Lower(title) IN
    /\ ~AnyHit(title_l, logic.negative_keywords)
    /\ ~(logic.require_one_topic /\ ~AnyHit(title_l, logic.topics))

\* match(title, cfg) for a match_logic that is an object
match(title, logic) ==
    LET title_l == Lower(title) IN
    IF AnyHit(title_l, logic.negative_keywords) THEN FALSE
    ELSE IF logic.require_one_location /\ ~AnyHit(title_l, logic.locations)
         THEN FALSE
    ELSE IF logic.require_one_topic /\ ~AnyHit(title_l, logic.topics)
         THEN FALSE
    ELSE TRUE

-----------------------------------------------------------------------------
(* Status file *)

EmptyObj == [k \in {} |-> TRUE]

\* an update in which the keys already in the file win
MergedOldWins(base, new) ==
    [k \in (DOMAIN base) \cup (DOMAIN new) |->
        IF k \in DOMAIN base THEN base[k] ELSE new[k]]

\* dict.update: keys of new overwrite, the other keys of base persist
Merged(base, new) ==
    [k \in (DOMAIN base) \cup (DOMAIN new) |->
        IF k \in DOMAIN new THEN new[k] ELSE base[k]]

\* an update that writes its keyword arguments and nothing of the old document
update_status_replacing(file, kwargs) == kwargs

\* update_status(**kwargs) when write_json_atomic succeeds
update_status(file, kwargs) == Merged(file, kwargs)

\* the outcomes a file write can have: it fails at most MaxFaults times
WriteOutcomes == IF faults < MaxFaults THEN {TRUE, FALSE} ELSE {TRUE}

-----------------------------------------------------------------------------
(* Config file *)

\* the match_logic of the shipped config, in short: location "b", topic "s",
\* negative keyword "w"
LogicStd ==
    [dict |-> TRUE,
     locations |-> << <<98>> >>, topics |-> << <<115>> >>,
     negative_keywords |-> << <<119>> >>,
     require_one_location |-> TRUE, require_one_topic |-> TRUE]

\* "match_logic": "berlin" : a JSON value that is no object
LogicNoObject ==
    [dict |-> FALSE,
     locations |-> <<>>, topics |-> <<>>, negative_keywords |-> <<>>,
     require_one_location |-> TRUE, require_one_topic |-> TRUE]

\* what cfg.get("match_logic") or {} gives when the key is absent
LogicAbsent ==
    [dict |-> TRUE,
     locations |-> <<>>, topics |-> <<>>, negative_keywords |-> <<>>,
     require_one_location |-> TRUE, require_one_topic |-> TRUE]

Src(n, u) == [dict |-> TRUE, name |-> n, url |-> u]
\* an element of "sources" that is a JSON string, not an object
SrcNoObject == [dict |-> FALSE, name |-> "", url |-> ""]

\* a JSON number: v is what int() makes of it, tenths its decimals
Float(n, t) == [num |-> TRUE, v |-> n, tenths |-> t]
Num(n) == Float(n, 0)
\* "check_interval_seconds": "fast" : a string int() cannot convert
NotANumber == [num |-> FALSE, v |-> 0, tenths |-> 0]

Cfg(en, iv, prime, srcs, logic) ==
    [enabled |-> en, check_interval_seconds |-> iv,
     prime_on_first_run |-> prime, max_feed_bytes |-> 0,
     sources |-> srcs, match_logic |-> logic, show_link_in_body |-> TRUE,
     sound |-> ""]

\* the same config with "notification": {"sound": s}
WithSound(c, s) == [c EXCEPT !.sound = s]

\* load_config's fallback {"enabled": True, "check_interval_seconds": 300,
\* "sources": []}, every other key read through .get with its default
DefaultConfig == Cfg(TRUE, Num(300), TRUE, <<>>, LogicAbsent)

TwoSources == << Src("rbb24", "u1"), Src("berlin", "u2") >>

FileAbsent == [kind |-> "absent", data |-> None]
\* a file whose read_text or json.loads raises: mode 000, or no JSON text
FileInvalid == [kind |-> "invalid", data |-> None]
\* a JSON text that is no object: [1, 2]
FileArray == [kind |-> "array", data |-> None]
\* a file in a directory the process may not search: stat raises EACCES
FileNoAccess == [kind |-> "no access", data |-> None]
FileObject(c) == [kind |-> "object", data |-> c]

\* the contents CONFIG_PATH takes in the model
ConfigFiles ==
    { FileAbsent,
      FileInvalid,
      FileArray,
      FileNoAccess,
      FileObject(Cfg(TRUE, Num(5), TRUE, TwoSources, LogicStd)),
      FileObject(WithSound(
          Cfg(TRUE, Num(86400), FALSE,
              << Src("rbb24", "u1"), Src("skipped", ""), Src("", "u3") >>,
              LogicStd),
          "Glass.aiff")),
      FileObject(Cfg(FALSE, Num(300), TRUE, TwoSources, LogicStd)),
      FileObject(Cfg(TRUE, NotANumber, TRUE, TwoSources, LogicStd)),
      FileObject(Cfg(TRUE, Num(0), FALSE,
                     << Src("rbb24", "u1"), SrcNoObject, Src("berlin", "u2") >>,
                     LogicStd)),
      FileObject(Cfg(TRUE, Float(0, 5), FALSE,
                     << Src("rbb24", "u1") >>, LogicNoObject)) }

\* a config that is read once, at the first tick
load_config_once(file) ==
    IF now = 0
    THEN IF file.kind = "object" THEN file.data ELSE DefaultConfig
    ELSE cfg

\* load_config, line 108: CONFIG_PATH.exists() raises the OSError of stat
\* unless it says the file or a directory of its path is missing
exists_raises(file) == file.kind = "no access"

\* load_config when exists() returns: the file's object; the fallback when
\* the file is absent (exists() is false), when safe_read_json returns {}
\* (the read or json.loads raised, or the JSON is no object), or when the
\* object is empty
load_config(file) ==
    IF file.kind = "object" THEN file.data ELSE DefaultConfig

\* an interval with a floor and no ceiling
ClampLow(iv) ==
    LET raw == IF iv.v = 0 /\ iv.tenths = 0 THEN DefaultInterval ELSE iv.v
    IN  Max(MinInterval, raw)

\* int(cfg.get("check_interval_seconds") or 300), clamped to [30, 3600]:
\* 0 is falsy and gives 300, 0.5 is truthy and int() makes it 0
ClampInterval(iv) ==
    LET raw == IF iv.v = 0 /\ iv.tenths = 0 THEN DefaultInterval ELSE iv.v
    IN  Max(MinInterval, Min(raw, MaxInterval))

\* int(cfg.get("max_feed_bytes") or 2_000_000)
MaxBytes(c) == IF c.max_feed_bytes = 0 THEN DefaultMaxBytes ELSE c.max_feed_bytes

\* str((src or {}).get("name") or "source")
SrcName(src) == IF src.name = "" THEN "source" ELSE src.name

-----------------------------------------------------------------------------
(* What a source returns *)

Item(uid, title, link) ==
    [uid |-> uid, title |-> title, link |-> link, published |-> None]

\* uid "a", title "SB": a location and a topic hit
ItemHit == Item(<<97>>, <<83, 66>>, <<108>>)
\* uid "x", title "xx": no keyword
ItemMiss == Item(<<120>>, <<120, 120>>, <<>>)
\* uid "c<LF>d" (a guid written over two lines), title "Sb"
ItemTwoLines == Item(<<99, NL, 100>>, <<83, 98>>, <<>>)

Failure(e) == [kind |-> "error", err |-> e, len |-> 0, items |-> <<>>]
Document(n, its) == [kind |-> "ok", err |-> "", len |-> n, items |-> its]

\* the responses of the network in Spec
SmallPool ==
    { Failure("timed out"),
      Document(DefaultMaxBytes + 1, << ItemHit >>),
      Document(DefaultMaxBytes, << ItemHit, ItemMiss >>),
      Document(700, << ItemTwoLines >>) }

\* a long feed: uids "u<i>", every 27th title a location and a topic hit
BigItems ==
    [i \in 1..BigLen |->
        Item(<<117, 1000 + i>>, IF i % 27 = 0 THEN <<83, 66>> ELSE <<120>>, <<>>)]

\* the responses of the network in SpecBig
BigPool ==
    { Failure("timed out"),
      Document(DefaultMaxBytes, BigItems),
      Document(900, << ItemHit >>) }

\* fetch: the error of urlopen, feed_too_large over max_bytes, else the data
fetch(r, max_bytes) ==
    IF r.kind = "error" THEN [ok |-> FALSE, err |-> r.err]
    ELSE IF r.len > max_bytes THEN [ok |-> FALSE, err |-> "feed_too_large"]
    ELSE [ok |-> TRUE, err |-> ""]

\* parse_html_links / parse_feed: the entries of the document, source=name
Parsed(r, n) ==
    [i \in DOMAIN r.items |->
        [source |-> n, title |-> r.items[i].title, link |-> r.items[i].link,
         uid |-> r.items[i].uid, published |-> r.items[i].published]]

as_public_item(e) ==
    [title |-> e.title, link |-> e.link, published |-> e.published, uid |-> e.uid]

\* [as_public_item(e) for e in entries[-10:]]: the last ten
LatestLast(es) ==
    [i \in 1..Min(Len(es), LatestCap) |->
        as_public_item(es[Len(es) - Min(Len(es), LatestCap) + i])]

\* [as_public_item(e) for e in entries[:10]]
Latest(es) ==
    [i \in 1..Min(Len(es), LatestCap) |-> as_public_item(es[i])]

\* the seen-log a process finds at its first start: none
InitialSeenLogs == { <<>> }

-----------------------------------------------------------------------------
(* The process *)

\* the locals of main and run_once before the first tick
Locals ==
    /\ cfg = DefaultConfig
    /\ interval = 0
    /\ sleepFor = 0
    /\ seen = {}
    /\ srcIdx = 0
    /\ name = ""
    /\ entries = <<>>
    /\ entSrc = 0
    /\ entIdx = 0
    /\ checked = 0
    /\ hits = 0
    /\ last_error = None
    /\ latest_items = EmptyObj
    /\ exc = ""
    /\ notifs = <<>>
    /\ fetchLog = <<>>
    /\ errLog = <<>>
    /\ primedLog = <<>>
    /\ seenAtStart = {}
    /\ outcome = "none"
    /\ delivery = "none"
    /\ ended = [signal |-> 0, status |-> 0, stop_line |-> FALSE]

\* the state of a process that has just started
Started ==
    /\ pc = "boot"
    /\ now = 0
    /\ configFile \in ConfigFiles
    /\ seenLog \in InitialSeenLogs
    /\ status = EmptyObj
    /\ Locals

\* a path that names no file
NoFile == [exists |-> FALSE, text |-> <<>>]

\* no call of match is under way
NoMatchCall ==
    /\ matchTitle = <<>>
    /\ matchLogic = LogicAbsent
    /\ matchResult = "none"

\* no call of update_status is followed step by step
NoStatusCall ==
    /\ stPc = "off"
    /\ stPath = NoFile
    /\ stTmp = NoFile
    /\ stKwargs = EmptyObj
    /\ stBase = EmptyObj
    /\ stPrev = EmptyObj
    /\ stRead = [exists |-> FALSE, text |-> <<>>, at |-> FALSE]

\* no source is followed from its payload to its entries
NoFeedCall ==
    /\ fdPc = "off"
    /\ fdUrl = <<>>
    /\ fdMax = 0
    /\ fdResp = [kind |-> "none", err |-> "", body |-> <<>>]
    /\ fdData = <<>>
    /\ fdCalls = <<>>
    /\ fdEntries = <<>>
    /\ fdTier = "none"
    /\ fdError = None

Init ==
    /\ Started /\ pool = SmallPool /\ faults = 0
    /\ NoMatchCall /\ NoStatusCall /\ NoFeedCall

\* the same process on a healthy disk, with sources that return long feeds
InitBig ==
    /\ Started /\ pool = BigPool /\ faults = MaxFaults
    /\ NoMatchCall /\ NoStatusCall /\ NoFeedCall

envVars == <<configFile, pool>>
cycleVars == <<cfg, interval, seenAtStart>>
srcVars == <<name, entries, entSrc>>
countVars == <<checked, hits, latest_items>>
histVars == <<fetchLog, errLog, primedLog>>

\* a write that failed is counted
Count(ok) == IF ok THEN faults ELSE faults + 1

\* an exception nobody catches leaves main: the process ends
Die == pc' = "crashed"

\* main, lines 409-410: update_status(ok=True, started_at=..., pid=...)
Boot ==
    /\ pc = "boot"
    /\ \E ok \in WriteOutcomes :
        /\ faults' = Count(ok)
        /\ IF ok
           THEN /\ status' = update_status(status,
                       [ok |-> TRUE, started_at |-> now, pid |-> Pid])
                /\ pc' = "tick"
           ELSE /\ Die
                /\ UNCHANGED status
    /\ UNCHANGED <<now, seenLog, envVars, cycleVars, srcVars, countVars, histVars,
                   sleepFor, seen, srcIdx, entIdx, last_error, exc, notifs, outcome>>
    /\ UNCHANGED <<offstage, ended>>
    /\ UNCHANGED delivery

\* a tick that treats every config as enabled
TickIgnoresEnabled ==
    /\ pc = "tick"
    /\ ~exists_raises(configFile)
    /\ ~load_config(configFile).enabled
    /\ cfg' = load_config(configFile)
    /\ interval' = ClampInterval(load_config(configFile).check_interval_seconds)
    /\ seen' = load_seen(seenLog)
    /\ seenAtStart' = load_seen(seenLog)
    /\ srcIdx' = 1
    /\ pc' = "src"
    /\ outcome' = "running"
    /\ UNCHANGED <<now, seenLog, status, faults, envVars, sleepFor, srcVars,
                   countVars, entIdx, last_error, exc, notifs, histVars,
                   delivery>>
    /\ UNCHANGED <<offstage, ended>>

\* main, lines 413-417: the reloaded config says enabled=false
TickDisabled ==
    /\ pc = "tick"
    /\ ~exists_raises(configFile)
    /\ ~load_config(configFile).enabled
    /\ \E ok \in WriteOutcomes :
        /\ faults' = Count(ok)
        /\ IF ok
           THEN /\ status' = update_status(status,
                       [ok |-> TRUE, updated_at |-> now, note |-> "disabled_in_config"])
                /\ sleepFor' = DisabledSleep
                /\ pc' = "sleep"
           ELSE /\ Die
                /\ UNCHANGED <<status, sleepFor>>
    /\ cfg' = load_config(configFile)
    /\ UNCHANGED <<now, seenLog, envVars, interval, seenAtStart, srcVars, countVars,
                   histVars, seen, srcIdx, entIdx, last_error, exc, notifs, outcome>>
    /\ UNCHANGED <<offstage, ended>>
    /\ UNCHANGED delivery

\* main, line 413: load_config raises out of CONFIG_PATH.exists(), outside
\* every try
TickConfigRaises ==
    /\ pc = "tick"
    /\ exists_raises(configFile)
    /\ Die
    /\ UNCHANGED <<now, seenLog, status, faults, envVars, cycleVars, sleepFor,
                   srcVars, countVars, histVars, seen, srcIdx, entIdx,
                   last_error, exc, notifs, outcome, delivery>>
    /\ UNCHANGED <<offstage, ended>>

\* main, line 419: int() of a check_interval_seconds that is no number raises
\* outside every try
TickBadInterval ==
    /\ pc = "tick"
    /\ ~exists_raises(configFile)
    /\ load_config(configFile).enabled
    /\ ~load_config(configFile).check_interval_seconds.num
    /\ Die
    /\ cfg' = load_config(configFile)
    /\ UNCHANGED <<now, seenLog, status, faults, envVars, interval, seenAtStart,
                   sleepFor, srcVars, countVars, histVars, seen, srcIdx, entIdx,
                   last_error, exc, notifs, outcome>>
    /\ UNCHANGED <<offstage, ended>>
    /\ UNCHANGED delivery

\* main, lines 413-424 and run_once, lines 344-355: a Polling cycle starts
TickPoll ==
    /\ pc = "tick"
    /\ ~exists_raises(configFile)
    /\ load_config(configFile).enabled
    /\ load_config(configFile).check_interval_seconds.num
    /\ cfg' = load_config(configFile)
    /\ interval' = ClampInterval(load_config(configFile).check_interval_seconds)
    /\ seen' = load_seen(seenLog)
    /\ seenAtStart' = load_seen(seenLog)
    /\ hits' = 0
    /\ checked' = 0
    /\ last_error' = None
    /\ latest_items' = EmptyObj
    /\ srcIdx' = 1
    /\ pc' = "src"
    /\ outcome' = "running"
    /\ UNCHANGED <<now, seenLog, status, faults, envVars, sleepFor, srcVars,
                   entIdx, exc, notifs, histVars>>
    /\ UNCHANGED <<offstage, ended>>
    /\ UNCHANGED delivery

\* run_once, lines 357 and 397: the sources are exhausted
SrcLoopEnd ==
    /\ pc = "src"
    /\ srcIdx > Len(cfg.sources)
    /\ pc' = "final"
    /\ UNCHANGED <<now, seenLog, status, faults, envVars, cycleVars, srcVars,
                   countVars, histVars, sleepFor, seen, srcIdx, entIdx, last_error,
                   exc, notifs, outcome>>
    /\ UNCHANGED <<offstage, ended>>
    /\ delivery' = "none"

\* run_once, lines 358-359: (src or {}).get on a source that is no object
\* raises outside the try
SrcNoObjectRaises ==
    /\ pc = "src"
    /\ srcIdx <= Len(cfg.sources)
    /\ ~cfg.sources[srcIdx].dict
    /\ exc' = "AttributeError"
    /\ outcome' = "raised"
    /\ pc' = "guard"
    /\ UNCHANGED <<now, seenLog, status, faults, envVars, cycleVars, srcVars,
                   countVars, histVars, sleepFor, seen, srcIdx, entIdx, last_error,
                   notifs>>
    /\ UNCHANGED <<offstage, ended>>
    /\ delivery' = "none"

\* a skip that comes after checked += 1
SrcSkipCounted ==
    /\ pc = "src"
    /\ srcIdx <= Len(cfg.sources)
    /\ cfg.sources[srcIdx].dict
    /\ cfg.sources[srcIdx].url = ""
    /\ srcIdx' = srcIdx + 1
    /\ checked' = checked + 1
    /\ UNCHANGED <<pc, now, seenLog, status, faults, envVars, cycleVars, srcVars,
                   hits, latest_items, histVars, sleepFor, seen, entIdx,
                   last_error, exc, notifs, outcome>>
    /\ UNCHANGED <<offstage, ended>>
    /\ delivery' = "none"

\* run_once, lines 360-361: a source without url is skipped
SrcSkip ==
    /\ pc = "src"
    /\ srcIdx <= Len(cfg.sources)
    /\ cfg.sources[srcIdx].dict
    /\ cfg.sources[srcIdx].url = ""
    /\ srcIdx' = srcIdx + 1
    /\ UNCHANGED <<pc, now, seenLog, status, faults, envVars, cycleVars, srcVars,
                   countVars, histVars, sleepFor, seen, entIdx, last_error, exc,
                   notifs, outcome>>
    /\ UNCHANGED <<offstage, ended>>
    /\ delivery' = "none"

\* run_once, line 371: prime when the in-memory set is empty at this source
ShouldPrime(s, c) == s = {} /\ c.prime_on_first_run

\* an except clause that leaves the loop over the sources
AfterErrorBreak(i) == [pc |-> "final", srcIdx |-> i]

\* run_once, lines 393-395 and 357: the error is recorded, the loop goes on
\* with the next source
AfterError(i) == [pc |-> "src", srcIdx |-> i + 1]

\* f"{name}: {exc}"
ErrText(n, e) == <<n, e>>

\* a last_error that keeps the first error of the cycle
RecordedFirst(prev, n, e) == IF prev = None THEN ErrText(n, e) ELSE prev

\* run_once, line 394: last_error = f"{name}: {exc}", whatever it held
Recorded(prev, n, e) == ErrText(n, e)

\* run_once, lines 393-395: except Exception as exc
Caught(n, e) ==
    /\ last_error' = Recorded(last_error, n, e)
    /\ errLog' = Append(errLog, [idx |-> srcIdx, text |-> ErrText(n, e)])
    /\ pc' = AfterError(srcIdx).pc
    /\ srcIdx' = AfterError(srcIdx).srcIdx

\* run_once, line 362
CountChecked(n) == n + 1

\* run_once, lines 362-374: fetch, classify, parse, latest_items, the choice
\* between priming and matching
SrcFetch ==
    /\ pc = "src"
    /\ srcIdx <= Len(cfg.sources)
    /\ cfg.sources[srcIdx].dict
    /\ cfg.sources[srcIdx].url # ""
    /\ name' = SrcName(cfg.sources[srcIdx])
    /\ checked' = CountChecked(checked)
    /\ fetchLog' = Append(fetchLog, srcIdx)
    /\ \E r \in pool :
        IF ~fetch(r, MaxBytes(cfg)).ok
        THEN /\ Caught(name', fetch(r, MaxBytes(cfg)).err)
             /\ UNCHANGED <<entries, entSrc, entIdx, latest_items, primedLog>>
        ELSE /\ entries' = Parsed(r, name')
             /\ entSrc' = srcIdx
             /\ latest_items' = Merged(latest_items, name' :> Latest(entries'))
             /\ entIdx' = 1
             /\ IF ShouldPrime(seen, cfg)
                THEN /\ pc' = "prime"
                     /\ primedLog' = Append(primedLog, srcIdx)
                ELSE /\ pc' = "entry"
                     /\ UNCHANGED primedLog
             /\ UNCHANGED <<srcIdx, last_error, errLog>>
    /\ UNCHANGED <<now, seenLog, status, faults, envVars, cycleVars, hits,
                   sleepFor, seen, exc, notifs, outcome>>
    /\ UNCHANGED <<offstage, ended>>
    /\ delivery' = "none"

\* prime_seen, line 328: for e in entries[:50]
PrimeLimit(es) == Min(Len(es), PrimeCap)

\* a matching loop that stops where priming stops
EntryLimitAsPrime(es) == Min(Len(es), PrimeCap)

\* run_once, line 375: for e in entries[:80]
EntryLimit(es) == Min(Len(es), EntryCap)

\* prime_seen, lines 328-331, one entry; run_once, lines 373-374 at the end
Prime ==
    /\ pc = "prime"
    /\ IF entIdx > PrimeLimit(entries)
       THEN /\ pc' = "src"
            /\ srcIdx' = srcIdx + 1
            /\ UNCHANGED <<seenLog, seen, faults, entIdx>>
       ELSE /\ entIdx' = entIdx + 1
            /\ UNCHANGED <<pc, srcIdx>>
            /\ IF entries[entIdx].uid \in seen
               THEN UNCHANGED <<seenLog, seen, faults>>
               ELSE \E ok \in WriteOutcomes :
                       /\ faults' = Count(ok)
                       /\ seenLog' = append_seen(seenLog, entries[entIdx].uid, ok)
                       /\ seen' = seen \cup {entries[entIdx].uid}
    /\ UNCHANGED <<now, status, envVars, cycleVars, srcVars, countVars, histVars,
                   sleepFor, last_error, exc, notifs, outcome>>
    /\ UNCHANGED <<offstage, ended>>
    /\ UNCHANGED delivery

\* run_once, line 375: the entries of the source are exhausted
EntryLoopEnd ==
    /\ pc = "entry"
    /\ entIdx > EntryLimit(entries)
    /\ pc' = "src"
    /\ srcIdx' = srcIdx + 1
    /\ UNCHANGED <<now, seenLog, status, faults, envVars, cycleVars, srcVars,
                   countVars, histVars, sleepFor, seen, entIdx, last_error, exc,
                   notifs, outcome>>
    /\ UNCHANGED <<offstage, ended>>
    /\ delivery' = "none"

\* run_once, lines 376-377: an entry already seen
EntrySeen ==
    /\ pc = "entry"
    /\ entIdx <= EntryLimit(entries)
    /\ entries[entIdx].uid \in seen
    /\ entIdx' = entIdx + 1
    /\ UNCHANGED <<pc, now, seenLog, status, faults, envVars, cycleVars, srcVars,
                   countVars, histVars, sleepFor, seen, srcIdx, last_error, exc,
                   notifs, outcome>>
    /\ UNCHANGED <<offstage, ended>>
    /\ delivery' = "none"

\* run_once, lines 378-379: match; logic.get raises when match_logic is no object
EntryMatch ==
    /\ pc = "entry"
    /\ entIdx <= EntryLimit(entries)
    /\ entries[entIdx].uid \notin seen
    /\ IF ~cfg.match_logic.dict
       THEN /\ Caught(name, "AttributeError")
            /\ UNCHANGED hits
       ELSE /\ IF match(entries[entIdx].title, cfg.match_logic)
               THEN /\ hits' = hits + 1
                    /\ pc' = "notify"
               ELSE /\ pc' = "append"
                    /\ UNCHANGED hits
            /\ UNCHANGED <<srcIdx, last_error, errLog>>
    /\ UNCHANGED <<now, seenLog, status, faults, envVars, cycleVars, srcVars,
                   checked, latest_items, fetchLog, primedLog, sleepFor, seen,
                   entIdx, exc, notifs, outcome>>
    /\ UNCHANGED <<offstage, ended>>
    /\ delivery' = "none"

\* run_once, lines 380-382
Body(e, c) ==
    IF c.show_link_in_body /\ e.link # <<>>
    THEN e.title \o <<NL>> \o e.link
    ELSE e.title

\* what the two subprocess.run of notify can do: the alert is shown or
\* osascript fails, the sound is played or afplay fails; no sound, no afplay
Deliveries(sound) ==
    {[shown |-> v, played |-> p] :
        v \in BOOLEAN, p \in IF sound = "" THEN {FALSE} ELSE BOOLEAN}

\* the alert was shown and the sound, if one is configured, was played
Delivered(d, sound) == d.shown /\ (sound = "" \/ d.played)

\* what became of the alert and of the sound
Outcome(d, sound) ==
    IF Delivered(d, sound) THEN "delivered"
    ELSE IF d.shown THEN "no sound"
    ELSE IF sound = "" \/ d.played THEN "no alert"
    ELSE "no alert, no sound"

\* a notify that lets the failure of osascript or afplay out
notifyRaising(d, sound) == ~Delivered(d, sound)

\* notify, lines 302-315: whether notify raises; both subprocess.run are in
\* a try whose except passes
notify(d, sound) == FALSE

\* a call of notify that comes after append_seen(e.uid)
NotifyMarksSeen ==
    /\ pc = "notify"
    /\ seenLog' = append_seen(seenLog, entries[entIdx].uid, TRUE)
    /\ notifs' = Append(notifs,
                  [uid |-> entries[entIdx].uid, source |-> name,
                   body |-> Body(entries[entIdx], cfg), at |-> now])
    /\ \E d \in Deliveries(cfg.sound) :
        /\ delivery' = Outcome(d, cfg.sound)
        /\ pc' = "hitStatus"
        /\ UNCHANGED <<srcIdx, last_error, errLog>>
    /\ UNCHANGED <<now, status, faults, envVars, cycleVars, srcVars,
                   countVars, fetchLog, primedLog, sleepFor, seen, entIdx, exc,
                   outcome>>
    /\ UNCHANGED <<offstage, ended>>

\* run_once, lines 380-384: the call of notify, inside the try of the source
Notify ==
    /\ pc = "notify"
    /\ notifs' = Append(notifs,
                  [uid |-> entries[entIdx].uid, source |-> name,
                   body |-> Body(entries[entIdx], cfg), at |-> now])
    /\ \E d \in Deliveries(cfg.sound) :
        /\ delivery' = Outcome(d, cfg.sound)
        /\ IF notify(d, cfg.sound)
           THEN /\ Caught(name, "FileNotFoundError")
           ELSE /\ pc' = "hitStatus"
                /\ UNCHANGED <<srcIdx, last_error, errLog>>
    /\ UNCHANGED <<now, seenLog, status, faults, envVars, cycleVars, srcVars,
                   countVars, fetchLog, primedLog, sleepFor, seen, entIdx, exc,
                   outcome>>
    /\ UNCHANGED <<offstage, ended>>

\* run_once, lines 385-390: update_status(last_hit_...), inside the try
HitStatus ==
    /\ pc = "hitStatus"
    /\ \E ok \in WriteOutcomes :
        /\ faults' = Count(ok)
        /\ IF ok
           THEN /\ status' = update_status(status,
                       [last_hit_at |-> now,
                        last_hit_title |-> entries[entIdx].title,
                        last_hit_link |-> entries[entIdx].link,
                        last_hit_source |-> name])
                /\ pc' = "append"
                /\ UNCHANGED <<srcIdx, last_error, errLog>>
           ELSE /\ Caught(name, "OSError")
                /\ UNCHANGED status
    /\ UNCHANGED <<now, seenLog, envVars, cycleVars, srcVars, countVars, fetchLog,
                   primedLog, sleepFor, seen, entIdx, exc, notifs, outcome>>
    /\ UNCHANGED <<offstage, ended>>
    /\ UNCHANGED delivery

\* run_once, lines 391-392: append_seen(e.uid); seen.add(e.uid)
MarkSeen ==
    /\ pc = "append"
    /\ \E ok \in WriteOutcomes :
        /\ faults' = Count(ok)
        /\ seenLog' = append_seen(seenLog, entries[entIdx].uid, ok)
    /\ seen' = seen \cup {entries[entIdx].uid}
    /\ entIdx' = entIdx + 1
    /\ pc' = "entry"
    /\ UNCHANGED <<now, status, envVars, cycleVars, srcVars, countVars, histVars,
                   sleepFor, srcIdx, last_error, exc, notifs, outcome>>
    /\ UNCHANGED <<offstage, ended>>
    /\ UNCHANGED delivery

\* an aggregate update that starts the last hit afresh
AggregateClearsHit(t, n, h, err, items) ==
    [ok |-> TRUE, updated_at |-> t, checked_sources |-> n, hits |-> h,
     last_error |-> err, latest_items |-> items, last_hit_title |-> None]

\* an aggregate update that reports the sources checked as its hits
AggregateChecked(t, n, h, err, items) ==
    [ok |-> TRUE, updated_at |-> t, checked_sources |-> n, hits |-> n,
     last_error |-> err, latest_items |-> items]

\* an aggregate update whose ok says whether a source failed
AggregateOkIfNoError(t, n, h, err, items) ==
    [ok |-> err = None, updated_at |-> t, checked_sources |-> n, hits |-> h,
     last_error |-> err, latest_items |-> items]

\* run_once, lines 397-404: the keyword arguments of the aggregate update
Aggregate(t, n, h, err, items) ==
    [ok |-> TRUE, updated_at |-> t, checked_sources |-> n, hits |-> h,
     last_error |-> err, latest_items |-> items]

\* run_once, lines 397-405: the aggregate update, outside the try
FinalStatus ==
    /\ pc = "final"
    /\ \E ok \in WriteOutcomes :
        /\ faults' = Count(ok)
        /\ IF ok
           THEN /\ status' = update_status(status,
                       Aggregate(now, checked, hits, last_error, latest_items))
                /\ outcome' = "returned"
                /\ sleepFor' = interval
                /\ pc' = "sleep"
                /\ UNCHANGED exc
           ELSE /\ exc' = "OSError"
                /\ outcome' = "raised"
                /\ pc' = "guard"
                /\ UNCHANGED <<status, sleepFor>>
    /\ UNCHANGED <<now, seenLog, envVars, cycleVars, srcVars, countVars, histVars,
                   seen, srcIdx, entIdx, last_error, notifs>>
    /\ UNCHANGED <<offstage, ended>>
    /\ delivery' = "none"

\* main, lines 425-429: except Exception as exc
Guard ==
    /\ pc = "guard"
    /\ \E ok \in WriteOutcomes :
        /\ faults' = Count(ok)
        /\ IF ok
           THEN /\ status' = update_status(status,
                       [ok |-> FALSE, updated_at |-> now, last_error |-> <<exc>>])
                /\ sleepFor' = interval
                /\ pc' = "sleep"
           ELSE /\ Die
                /\ UNCHANGED <<status, sleepFor>>
    /\ UNCHANGED <<now, seenLog, envVars, cycleVars, srcVars, countVars, histVars,
                   seen, srcIdx, entIdx, last_error, exc, notifs, outcome>>
    /\ UNCHANGED <<offstage, ended>>
    /\ UNCHANGED delivery

\* main, lines 416 and 429: time.sleep returns, the next tick starts
Sleep ==
    /\ pc = "sleep"
    /\ now + 1 < MaxCycles
    /\ now' = now + 1
    /\ pc' = "tick"
    /\ sleepFor' = 0
    /\ seen' = {}
    /\ srcIdx' = 0
    /\ name' = ""
    /\ entries' = <<>>
    /\ entSrc' = 0
    /\ entIdx' = 0
    /\ checked' = 0
    /\ hits' = 0
    /\ last_error' = None
    /\ latest_items' = EmptyObj
    /\ exc' = ""
    /\ fetchLog' = <<>>
    /\ errLog' = <<>>
    /\ primedLog' = <<>>
    /\ seenAtStart' = {}
    /\ outcome' = "none"
    /\ interval' = 0
    /\ UNCHANGED <<seenLog, status, faults, envVars, cfg, notifs>>
    /\ UNCHANGED <<offstage, ended>>
    /\ UNCHANGED delivery

\* the operator edits the config file while the loop sleeps
EditConfig ==
    /\ pc = "sleep"
    /\ now + 1 < MaxCycles
    /\ configFile' \in ConfigFiles \ {configFile}
    /\ UNCHANGED <<pc, now, seenLog, status, faults, pool, cycleVars, srcVars,
                   countVars, histVars, sleepFor, seen, srcIdx, entIdx, last_error,
                   exc, notifs, outcome>>
    /\ UNCHANGED <<offstage, ended>>
    /\ UNCHANGED delivery

\* the signal of a terminal's interrupt key, and the one `launchctl unload`
\* (power_watchdog_ctl.py, stop) has launchd send to the job
SIGINT == 2
SIGTERM == 15
Signals == {SIGINT, SIGTERM}

\* the interpreter turns SIGINT into KeyboardInterrupt; the program installs no
\* handler, so every other signal keeps its default action
raises_KeyboardInterrupt(sig) == sig = SIGINT

\* __main__, lines 432-436: a signal arrives while main sleeps.
\* KeyboardInterrupt leaves main, the handler logs the stop line and the script
\* runs off its end; the default action of SIGTERM ends the process at once.
Signal ==
    /\ pc = "sleep"
    /\ pc' = "exited"
    /\ \E sig \in Signals :
        ended' = IF raises_KeyboardInterrupt(sig)
                 THEN [signal |-> sig, status |-> 0, stop_line |-> TRUE]
                 ELSE [signal |-> sig, status |-> 0 - sig, stop_line |-> FALSE]
    /\ UNCHANGED <<now, seenLog, status, faults, envVars, cycleVars, srcVars,
                   countVars, histVars, sleepFor, seen, srcIdx, entIdx, last_error,
                   exc, notifs, outcome, delivery>>
    /\ UNCHANGED offstage

Next ==
    \/ Signal
    \/ Boot
    \/ TickDisabled
    \/ TickConfigRaises
    \/ TickBadInterval
    \/ TickPoll
    \/ SrcLoopEnd
    \/ SrcNoObjectRaises
    \/ SrcSkip
    \/ SrcFetch
    \/ Prime
    \/ EntryLoopEnd
    \/ EntrySeen
    \/ EntryMatch
    \/ Notify
    \/ HitStatus
    \/ MarkSeen
    \/ FinalStatus
    \/ Guard
    \/ Sleep
    \/ EditConfig

Spec == Init /\ [][Next]_vars

SpecBig == InitBig /\ [][Next]_vars

-----------------------------------------------------------------------------
(* match, call by call *)

\* the longest title given to match
MaxTitleLen == 3

\* "B", "s", capital alpha, capital sigma
TitleChars == {66, 115, 913, Sigma}

RECURSIVE TitlesOfLen(_)
TitlesOfLen(n) ==
    IF n = 0 THEN { <<>> }
    ELSE {Append(t, c) : t \in TitlesOfLen(n - 1), c \in TitleChars}

Titles == UNION {TitlesOfLen(n) : n \in 0..MaxTitleLen}

\* keyword lists of a match_logic: none, "" (an empty keyword), "b", "S",
\* capital alpha and sigma, and an empty keyword before a real one
NegativeLists ==
    { <<>>, << <<>> >>, << <<98>> >>, << <<83>> >>, << <<913, Sigma>> >>,
      << <<>>, <<98>> >> }
LocationLists == { <<>>, << <<>> >>, << <<98>> >> }
TopicLists == { <<>>, << <<83>> >>, << <<913, Sigma>> >> }

\* the values of cfg.get("match_logic") given to match
Logics ==
    [dict : {TRUE}, locations : LocationLists, topics : TopicLists,
     negative_keywords : NegativeLists,
     require_one_location : BOOLEAN, require_one_topic : BOOLEAN]
        \cup {LogicNoObject}

\* the process is not running
NotStarted ==
    /\ pc = "off"
    /\ now = 0
    /\ configFile = FileAbsent
    /\ seenLog = <<>>
    /\ status = EmptyObj
    /\ faults = 0
    /\ pool = {}
    /\ Locals

InitMatch ==
    /\ NotStarted
    /\ NoStatusCall /\ NoFeedCall
    /\ matchTitle \in Titles
    /\ matchLogic \in Logics
    /\ matchResult = "none"

\* match, lines 282-299: the call returns
MatchReturns ==
    /\ matchResult = "none"
    /\ matchLogic.dict
    /\ matchResult' = IF match(matchTitle, matchLogic) THEN "true" ELSE "false"
    /\ UNCHANGED <<procVars, statusVars, feedVars, matchTitle, matchLogic>>

\* match, line 286: logic.get on a match_logic that is no object raises
MatchRaises ==
    /\ matchResult = "none"
    /\ ~matchLogic.dict
    /\ matchResult' = "raised"
    /\ UNCHANGED <<procVars, statusVars, feedVars, matchTitle, matchLogic>>

NextMatch ==
    \/ MatchReturns
    \/ MatchRaises

SpecMatch == InitMatch /\ [][NextMatch]_vars

-----------------------------------------------------------------------------
(* update_status, step by step, next to a reader of the status file *)

\* keys and values of the status documents written here
StatusKeys == {"note", "ok"}
StatusValues == {0, 1}

\* the status documents, and the keyword arguments of a call
Documents == UNION {[ks -> StatusValues] : ks \in SUBSET StatusKeys}
KwargSets == Documents \ {EmptyObj}

\* the text of a JSON object, piece by piece: the opening brace, one piece
\* for each "key": value, the closing brace
Open == [k |-> "{", v |-> 0]
Close == [k |-> "}", v |-> 0]
Pair(k, v) == [k |-> k, v |-> v]

\* the order json.dumps writes the keys in
KeyOrder == <<"note", "ok">>

\* json.dumps(data, indent=2, ensure_ascii=False)
Dumps(d) ==
    LET Has(k) == k \in DOMAIN d
        ks == SelectSeq(KeyOrder, Has)
    IN  <<Open>> \o [i \in 1..Len(ks) |-> Pair(ks[i], d[ks[i]])] \o <<Close>>

\* the text is a complete JSON object: json.loads returns a dict
WellFormed(t) ==
    /\ Len(t) >= 2
    /\ t[1] = Open
    /\ t[Len(t)] = Close
    /\ \A i \in 2..(Len(t) - 1) : t[i].k \in StatusKeys

\* json.loads of a complete JSON object: of two pieces with one key the
\* later one counts
Loads(t) ==
    [k \in {t[i].k : i \in 2..(Len(t) - 1)} |->
        t[CHOOSE i \in 2..(Len(t) - 1) :
            t[i].k = k /\ \A j \in (i + 1)..(Len(t) - 1) : t[j].k # k].v]

\* safe_read_json: the object in the file, {} when json.loads raises
safe_read_json(file) ==
    IF WellFormed(file.text) THEN Loads(file.text) ELSE EmptyObj

\* a file with the text t
FileWith(t) == [exists |-> TRUE, text |-> t]

\* what a reader of a path gets, and whether write_text was at work then
ReadOf(file, at) ==
    [exists |-> file.exists, text |-> file.text, at |-> at = "write"]

\* a write_json_atomic that writes the document over the file itself
in_place == "path"

\* write_json_atomic, line 80: the text goes to path + ".tmp"
tmp == "tmp"

\* the file write_text writes to
Target == IF tmp = "tmp" THEN stTmp ELSE stPath

\* the two files once write_text has made t of its file
Written(t) ==
    /\ stTmp' = IF tmp = "tmp" THEN FileWith(t) ELSE stTmp
    /\ stPath' = IF tmp = "tmp" THEN stPath ELSE FileWith(t)

\* a run of an earlier process left no status file or a complete one, and
\* maybe a temporary file it never finished
InitStatus ==
    /\ NotStarted
    /\ NoMatchCall /\ NoFeedCall
    /\ stPc = "idle"
    /\ stPath \in {NoFile, FileWith(Dumps([ok |-> 1, note |-> 0]))}
    /\ stTmp \in {NoFile, FileWith(<<Open>>)}
    /\ stKwargs = EmptyObj
    /\ stBase = EmptyObj
    /\ stPrev = EmptyObj
    /\ stRead = ReadOf(NoFile, "off")

\* update_status, line 318: a call with some keyword arguments
UpdateCall ==
    /\ stPc \in {"idle", "returned", "raised"}
    /\ stKwargs' \in KwargSets
    /\ stPc' = "read"
    /\ UNCHANGED <<procVars, matchVars, feedVars, stPath, stTmp, stBase, stPrev, stRead>>

\* update_status, lines 319-321: base is the document in the file, {} if
\* there is no file
UpdateReadBase ==
    /\ stPc = "read"
    /\ stBase' = IF stPath.exists THEN safe_read_json(stPath) ELSE EmptyObj
    /\ stPrev' = stBase'
    /\ stPc' = "merge"
    /\ UNCHANGED <<procVars, matchVars, feedVars, stPath, stTmp, stKwargs, stRead>>

\* update_status, line 322: base.update(kwargs)
UpdateMerge ==
    /\ stPc = "merge"
    /\ stBase' = Merged(stBase, stKwargs)
    /\ stPc' = "open"
    /\ UNCHANGED <<procVars, matchVars, feedVars, stPath, stTmp, stKwargs, stPrev, stRead>>

\* write_json_atomic, line 81: write_text opens its file, which empties it
WriteOpen ==
    /\ stPc = "open"
    /\ Written(<<>>)
    /\ stPc' = "write"
    /\ UNCHANGED <<procVars, matchVars, feedVars, stKwargs, stBase, stPrev, stRead>>

\* write_json_atomic, line 81: the next piece of the text reaches the file
WriteChunk ==
    /\ stPc = "write"
    /\ LET text == Dumps(stBase)
           done == Len(Target.text)
       IN  /\ Written(SubSeq(text, 1, done + 1))
           /\ stPc' = IF done + 1 = Len(text) THEN "replace" ELSE "write"
    /\ UNCHANGED <<procVars, matchVars, feedVars, stKwargs, stBase, stPrev, stRead>>

\* write_json_atomic, line 81: write_text raises (disk full, no permission),
\* and update_status with it
WriteRaises ==
    /\ stPc \in {"open", "write"}
    /\ stPc' = "raised"
    /\ UNCHANGED <<procVars, matchVars, feedVars, stPath, stTmp, stKwargs, stBase,
                   stPrev, stRead>>

\* write_json_atomic, line 82: tmp.replace(path)
WriteReplace ==
    /\ stPc = "replace"
    /\ stPath' = Target
    /\ stTmp' = IF tmp = "tmp" THEN NoFile ELSE stTmp
    /\ stPc' = "returned"
    /\ UNCHANGED <<procVars, matchVars, feedVars, stKwargs, stBase, stPrev, stRead>>

\* another process reads STATUS_PATH, at any moment
ExternalRead ==
    /\ stPc # "off"
    /\ stRead' = ReadOf(stPath, stPc)
    /\ UNCHANGED <<procVars, matchVars, feedVars, stPc, stPath, stTmp, stKwargs, stBase,
                   stPrev>>

NextStatus ==
    \/ UpdateCall
    \/ UpdateReadBase
    \/ UpdateMerge
    \/ WriteOpen
    \/ WriteChunk
    \/ WriteRaises
    \/ WriteReplace
    \/ ExternalRead

SpecStatus == InitStatus /\ [][NextStatus]_vars

-----------------------------------------------------------------------------
(* One source: fetch, looks_like_html, parse_html_links, parse_feed.       *)
(* A payload is a sequence of bytes; decoded, it is text as above.         *)

\* the printable ASCII characters but the double quote (34), the backslash
\* (92) and the backquote (96), in two runs: from 35 and from 97
AsciiLow == "#$%&'()*+,-./0123456789:;<=>?@ABCDEFGHIJKLMNOPQRSTUVWXYZ["
AsciiHigh == "abcdefghijklmnopqrstuvwxyz{|}~"

CodeOf ==
    [c \in {" ", "!", "]", "^", "_"} |->
        CASE c = " " -> 32 [] c = "!" -> 33 [] c = "]" -> 93 [] c = "^" -> 94
          [] c = "_" -> 95]
    @@ [c \in {SubSeq(AsciiLow, k, k) : k \in 1..57} |->
            34 + (CHOOSE k \in 1..57 : SubSeq(AsciiLow, k, k) = c)]
    @@ [c \in {SubSeq(AsciiHigh, k, k) : k \in 1..30} |->
            96 + (CHOOSE k \in 1..30 : SubSeq(AsciiHigh, k, k) = c)]

\* the code points (or, the same, the bytes) of a string of such characters
Ord(s) == [i \in 1..Len(s) |-> CodeOf[SubSeq(s, i, i)]]

\* s[i], or -1 where s has no position i
At(s, i) == IF i \in 1..Len(s) THEN s[i] ELSE -1

Replacement == 65533

Cont(b) == b \in 128..191
Lead2(b) == b \in 194..223
Lead3(b) == b \in 224..239
Lead4(b) == b \in 240..244

\* the second byte of a sequence of three or four bytes, after the lead b1
Second(b1, b2) ==
    CASE b1 = 224 -> b2 \in 160..191
      [] b1 = 237 -> b2 \in 128..159
      [] b1 = 240 -> b2 \in 144..191
      [] b1 = 244 -> b2 \in 128..143
      [] OTHER -> Cont(b2)

\* byte i continues a character that an earlier byte leads
Consumed(b, i) ==
    LET p1 == At(b, i - 1)
        p2 == At(b, i - 2)
        p3 == At(b, i - 3)
    IN  \/ Lead2(p1) /\ Cont(b[i])
        \/ (Lead3(p1) \/ Lead4(p1)) /\ Second(p1, b[i])
        \/ (Lead3(p2) \/ Lead4(p2)) /\ Second(p2, p1) /\ Cont(b[i])
        \/ Lead4(p3) /\ Second(p3, p2) /\ Cont(p1) /\ Cont(b[i])

\* the character that starts at byte i; U+FFFD for what is no UTF-8
CharAt(b, i) ==
    LET b1 == b[i]
        b2 == At(b, i + 1)
        b3 == At(b, i + 2)
        b4 == At(b, i + 3)
    IN  CASE b1 < 128 -> b1
          [] Lead2(b1) /\ Cont(b2) -> (b1 - 192) * 64 + (b2 - 128)
          [] Lead3(b1) /\ Second(b1, b2) /\ Cont(b3) ->
                (b1 - 224) * 4096 + (b2 - 128) * 64 + (b3 - 128)
          [] Lead4(b1) /\ Second(b1, b2) /\ Cont(b3) /\ Cont(b4) ->
                (b1 - 240) * 262144 + (b2 - 128) * 4096 + (b3 - 128) * 64 + (b4 - 128)
          [] OTHER -> Replacement

\* data.decode("utf-8", errors="replace")
Decode(b) ==
    LET cps == [i \in 1..Len(b) |-> IF Consumed(b, i) THEN -1 ELSE CharAt(b, i)]
    IN  SelectSeq(cps, LAMBDA c : c # -1)

\* line 222: the control characters other than TAB, LF and CR are dropped
Printable(c) == c \in {9, 10, 13} \/ c >= 32
StripControls(text) == SelectSeq(text, Printable)

IsDigit(c) == c \in 48..57
IsAlpha(c) == c \in 65..90 \/ c \in 97..122
IsAlnum(c) == IsAlpha(c) \/ IsDigit(c)
IsHex(c) == IsDigit(c) \/ c \in 65..70 \/ c \in 97..102
\* \w of a str pattern, for the characters of the model
IsWord(c) == IsAlnum(c) \/ c = 95 \/ c \in {223, 252, 913, 931, 962, 963}

Amp == 38
Semi == 59
Hash == 35

\* the first position from i on where P holds, Len(s) + 1 if there is none
First(s, i, P(_)) ==
    IF \E j \in i..Len(s) : P(s[j])
    THEN CHOOSE j \in i..Len(s) : P(s[j]) /\ \A k \in i..(j - 1) : ~P(s[k])
    ELSE Len(s) + 1

\* s has the text t at position i
HasAt(s, i, t) ==
    /\ i >= 1
    /\ i + Len(t) - 1 <= Len(s)
    /\ \A k \in 1..Len(t) : s[i + k - 1] = t[k]

\* the same, whatever the case of the ASCII letters of s (t is lower case)
AsciiLower(c) == IF c \in 65..90 THEN c + 32 ELSE c
HasAtNoCase(s, i, t) ==
    /\ i >= 1
    /\ i + Len(t) - 1 <= Len(s)
    /\ \A k \in 1..Len(t) : AsciiLower(s[i + k - 1]) = t[k]

\* the first position from i on where s has t, 0 if there is none
Find(s, i, t) ==
    IF \E j \in i..Len(s) : HasAt(s, j, t)
    THEN CHOOSE j \in i..Len(s) : HasAt(s, j, t) /\ \A k \in i..(j - 1) : ~HasAt(s, k, t)
    ELSE 0

FindNoCase(s, i, t) ==
    IF \E j \in i..Len(s) : HasAtNoCase(s, j, t)
    THEN CHOOSE j \in i..Len(s) :
            HasAtNoCase(s, j, t) /\ \A k \in i..(j - 1) : ~HasAtNoCase(s, k, t)
    ELSE 0

\* the decimal digits of a natural number
RECURSIVE Digits(_)
Digits(n) == IF n < 10 THEN <<48 + n>> ELSE Append(Digits(n \div 10), 48 + (n % 10))

\* the number a run of decimal (base 10) or hexadecimal (base 16) digits writes
HexVal(c) == IF IsDigit(c) THEN c - 48 ELSE IF c >= 97 THEN c - 87 ELSE c - 55
RECURSIVE NumberOf(_, _)
NumberOf(ds, base) ==
    IF ds = <<>> THEN 0
    ELSE NumberOf(SubSeq(ds, 1, Len(ds) - 1), base) * base + HexVal(ds[Len(ds)])
\* a reference to a code point beyond Unicode stays beyond it: 1114112 stands
\* for every number of more than seven digits after the leading zeros
Number(ds, base) ==
    With(First(ds, 1, LAMBDA c : c # 48), LAMBDA from :
        IF Len(ds) - from + 1 > 7 THEN 1114112
        ELSE Min(NumberOf(SubSeq(ds, from, Len(ds)), base), 1114112))

\* what follows the & at position p: "name" for [A-Za-z][A-Za-z0-9]+; ,
\* "number" for #\d+; and #x[0-9A-Fa-f]+; , "stray" for anything else.
\* `last` is the position of the semicolon.
RefAt(s, p) ==
    LET nameEnd == First(s, p + 1, LAMBDA c : ~IsAlnum(c))
        decEnd == First(s, p + 2, LAMBDA c : ~IsDigit(c))
        hexEnd == First(s, p + 3, LAMBDA c : ~IsHex(c))
    IN  IF IsAlpha(At(s, p + 1)) /\ nameEnd >= p + 3 /\ At(s, nameEnd) = Semi
        THEN [kind |-> "name", last |-> nameEnd, body |-> SubSeq(s, p + 1, nameEnd - 1)]
        ELSE IF At(s, p + 1) = Hash /\ decEnd >= p + 3 /\ At(s, decEnd) = Semi
        THEN [kind |-> "number", last |-> decEnd,
              body |-> <<Number(SubSeq(s, p + 2, decEnd - 1), 10)>>]
        ELSE IF At(s, p + 1) = Hash /\ At(s, p + 2) = 120 /\ hexEnd >= p + 4
                /\ At(s, hexEnd) = Semi
        THEN [kind |-> "number", last |-> hexEnd,
              body |-> <<Number(SubSeq(s, p + 3, hexEnd - 1), 16)>>]
        ELSE [kind |-> "stray", last |-> p, body |-> <<>>]

\* the names XML itself declares
Predefined ==
    [n \in {Ord("amp"), Ord("lt"), Ord("gt"), Ord("apos"), Ord("quot")} |->
        CASE n = Ord("amp") -> 38 [] n = Ord("lt") -> 60 [] n = Ord("gt") -> 62
          [] n = Ord("apos") -> 39 [] n = Ord("quot") -> 34]

\* html.entities.name2codepoint, an excerpt: the names the payloads of the
\* model use; every other name of the model is in neither table
name2codepoint ==
    [n \in {Ord("nbsp"), Ord("copy"), Ord("uuml"), Ord("szlig")} |->
        CASE n = Ord("nbsp") -> 160 [] n = Ord("copy") -> 169
          [] n = Ord("uuml") -> 252 [] n = Ord("szlig") -> 223]
    @@ Predefined

\* fix_named_entity, lines 225-230
fix_named_entity(n) ==
    IF n \in DOMAIN Predefined THEN <<Amp>> \o n \o <<Semi>>
    ELSE IF n \in DOMAIN name2codepoint
    THEN <<Amp, Hash>> \o Digits(name2codepoint[n]) \o <<Semi>>
    ELSE Ord("&amp;") \o n \o <<Semi>>

\* the text from position i on, left as it is
Unrepaired(s, i) == SubSeq(s, i, Len(s))
\* lines 232 and 234 on the text from position i on: a named entity becomes
\* what fix_named_entity returns, a numeric one stays, any other & becomes &amp;
RECURSIVE Repaired(_, _)
Repaired(s, i) ==
    With(First(s, i, LAMBDA c : c = Amp), LAMBDA p :
        IF p > Len(s) THEN SubSeq(s, i, Len(s))
        ELSE With(RefAt(s, p), LAMBDA r :
                LET new == CASE r.kind = "name" -> fix_named_entity(r.body)
                             [] r.kind = "number" -> SubSeq(s, p, r.last)
                             [] OTHER -> Ord("&amp;")
                IN  SubSeq(s, i, p - 1) \o new \o Repaired(s, r.last + 1)))

\* lines 221-234: the text handed to the parsers
Sanitized(data) == With(StripControls(Decode(data)), LAMBDA text : Repaired(text, 1))

-----------------------------------------------------------------------------
(* xml.etree.ElementTree.fromstring, for the XML the payloads of the model  *)
(* are written in: elements with attributes and namespaces, text with       *)
(* references, CDATA sections and comments without < and >, processing      *)
(* instructions, a document type without an internal subset.                *)

LT == 60
GT == 62
Slash == 47
Quote == 34
Apos == 39
Equals == 61
Colon == 58

XmlSpace(c) == c \in {32, 9, 10, 13}
NameStart(c) == IsAlpha(c) \/ c = 95
NameChar(c) == IsAlnum(c) \/ c \in {95, 45, 46}

\* a character a document may hold or refer to
XmlChar(c) ==
    c \in {9, 10, 13} \/ c \in 32..55295 \/ c \in 57344..65533 \/ c \in 65536..1114111

\* position i lies in a tag: the nearest < or > before it is a <
InTag(s, i) ==
    \E j \in 1..(i - 1) : s[j] = LT /\ \A k \in (j + 1)..(i - 1) : s[k] \notin {LT, GT}

\* a tag or a run of text starts at position i
IsStart(s, i) ==
    IF s[i] = LT THEN ~InTag(s, i)
    ELSE i = 1 \/ (s[i - 1] = GT /\ InTag(s, i - 1))

TokenStarts(s) == SelectSeq([i \in 1..Len(s) |-> i], LAMBDA i : IsStart(s, i))

\* every & of s starts a reference to a predefined entity or to a character
RefOk(s, p) ==
    LET r == RefAt(s, p)
    IN  \/ r.kind = "name" /\ r.body \in DOMAIN Predefined
        \/ r.kind = "number" /\ XmlChar(r.body[1])
TextOk(s) ==
    /\ \A p \in DOMAIN s : s[p] = Amp => RefOk(s, p)
    /\ \A p \in DOMAIN s : XmlChar(s[p])
    /\ Find(s, 1, Ord("]]>")) = 0

\* text with its references replaced by the characters they name
RECURSIVE XmlText(_, _)
XmlText(s, i) ==
    LET p == First(s, i, LAMBDA c : c = Amp)
    IN  IF p > Len(s) THEN SubSeq(s, i, Len(s))
        ELSE LET r == RefAt(s, p)
                 c == IF r.kind = "name" THEN Predefined[r.body] ELSE r.body[1]
             IN  SubSeq(s, i, p - 1) \o <<c>> \o XmlText(s, r.last + 1)

NoAttributes == [ok |-> FALSE, pairs |-> <<>>, empty |-> FALSE]

\* the attributes of the tag raw from position i on, `pairs` those before i
RECURSIVE Attributes(_, _, _)
Attributes(raw, i, pairs) ==
    LET j == First(raw, i, LAMBDA c : ~XmlSpace(c))
        nameEnd == First(raw, j, LAMBDA c : ~(NameChar(c) \/ c = Colon))
        eq == First(raw, nameEnd, LAMBDA c : ~XmlSpace(c))
        open == First(raw, eq + 1, LAMBDA c : ~XmlSpace(c))
        close == First(raw, open + 1, LAMBDA c : c = At(raw, open))
        attr == SubSeq(raw, j, nameEnd - 1)
        value == SubSeq(raw, open + 1, close - 1)
    IN  IF j = Len(raw) /\ raw[j] = GT
        THEN [ok |-> TRUE, pairs |-> pairs, empty |-> FALSE]
        ELSE IF j + 1 = Len(raw) /\ raw[j] = Slash /\ raw[j + 1] = GT
        THEN [ok |-> TRUE, pairs |-> pairs, empty |-> TRUE]
        ELSE IF \/ j = i
                \/ ~NameStart(At(raw, j))
                \/ At(raw, eq) # Equals
                \/ At(raw, open) \notin {Quote, Apos}
                \/ close > Len(raw)
                \/ ~TextOk(value)
                \/ \E k \in DOMAIN pairs : pairs[k][1] = attr
        THEN NoAttributes
        ELSE Attributes(raw, close + 1, Append(pairs, <<attr, XmlText(value, 1)>>))

EndsWith(s, t) == HasAt(s, Len(s) - Len(t) + 1, t)

\* the name of the tag raw, which starts at position i
TagName(raw, i) == SubSeq(raw, i, First(raw, i, LAMBDA c : ~(NameChar(c) \/ c = Colon)) - 1)

\* a name is local or prefix:local
NameOk(n) ==
    LET c == Find(n, 1, <<Colon>>)
    IN  /\ n # <<>>
        /\ NameStart(n[1])
        /\ c # 0 => /\ c < Len(n)
                    /\ NameStart(n[c + 1])
                    /\ Find(n, c + 1, <<Colon>>) = 0

Tok(kind, tag, attrs, text) ==
    [kind |-> kind, name |-> tag, attrs |-> attrs, text |-> text]

\* one token of the text: a tag, or the run of text between two tags
Token(raw) ==
    LET n == Len(raw)
        opening == TagName(raw, 2)
        closing == TagName(raw, 3)
        afterClosing == First(raw, Len(closing) + 3, LAMBDA c : ~XmlSpace(c))
    IN  CASE raw[1] # LT ->
                Tok(IF TextOk(raw) THEN "text" ELSE "bad", <<>>, <<>>,
                    IF TextOk(raw) THEN XmlText(raw, 1) ELSE raw)
          [] HasAt(raw, 1, Ord("<![CDATA[")) /\ EndsWith(raw, Ord("]]>")) /\ n >= 12 ->
                Tok("cdata", <<>>, <<>>, SubSeq(raw, 10, n - 3))
          [] HasAt(raw, 1, Ord("<!--")) /\ EndsWith(raw, Ord("-->")) /\ n >= 7 ->
                Tok("comment", <<>>, <<>>, <<>>)
          [] HasAt(raw, 1, Ord("<!DOCTYPE ")) /\ raw[n] = GT ->
                Tok("doctype", <<>>, <<>>, <<>>)
          [] HasAt(raw, 1, Ord("<?")) /\ EndsWith(raw, Ord("?>")) /\ NameOk(TagName(raw, 3)) ->
                Tok("pi", TagName(raw, 3), <<>>, raw)
          [] HasAt(raw, 1, Ord("</")) /\ NameOk(closing) /\ afterClosing = n /\ raw[n] = GT ->
                Tok("close", closing, <<>>, <<>>)
          [] OTHER ->
                With(Attributes(raw, Len(opening) + 2, <<>>), LAMBDA attrs :
                    IF NameOk(opening) /\ attrs.ok
                    THEN Tok(IF attrs.empty THEN "empty" ELSE "open", opening,
                             attrs.pairs, <<>>)
                    ELSE Tok("bad", <<>>, <<>>, raw))

\* the tokens of a text, in order
Tokens(s) ==
    With(TokenStarts(s), LAMBDA st :
        [k \in 1..Len(st) |->
            With(SubSeq(s, st[k], IF k < Len(st) THEN st[k + 1] - 1 ELSE Len(s)), Token)]
            \o <<>>)

IsElement(t) == t.kind \in {"open", "empty"}

\* the number of elements that are open where token k starts
Depth(toks, k) ==
    Cardinality({j \in 1..(k - 1) : toks[j].kind = "open"})
        - Cardinality({j \in 1..(k - 1) : toks[j].kind = "close"})

\* the start tag of the element token k lies in (for an end tag: the start
\* tag it ends), 0 outside every element
Parent(toks, k) ==
    LET up == {j \in 1..(k - 1) :
                    toks[j].kind = "open" /\ Depth(toks, j) = Depth(toks, k) - 1}
    IN  IF up = {} THEN 0 ELSE CHOOSE j \in up : \A i \in up : i <= j

Attr(t, n) ==
    IF \E i \in DOMAIN t.attrs : t.attrs[i][1] = n
    THEN (CHOOSE p \in Range(t.attrs) : p[1] = n)[2]
    ELSE <<>>

Unbound == <<0>>

\* the namespace an xmlns attribute of token k or of an element around it binds
RECURSIVE Bound(_, _, _)
Bound(toks, k, attr) ==
    IF k = 0 THEN Unbound
    ELSE IF \E i \in DOMAIN toks[k].attrs : toks[k].attrs[i][1] = attr
    THEN Attr(toks[k], attr)
    ELSE Bound(toks, Parent(toks, k), attr)

Prefix(n) == SubSeq(n, 1, Find(n, 1, <<Colon>>) - 1)
Local(n) == SubSeq(n, Find(n, 1, <<Colon>>) + 1, Len(n))

\* the namespace of the element at token k, <<>> if it has none
Namespace(toks, k) ==
    IF Prefix(toks[k].name) # <<>>
    THEN Bound(toks, k, Ord("xmlns:") \o Prefix(toks[k].name))
    ELSE LET ns == Bound(toks, k, Ord("xmlns"))
         IN  IF ns = Unbound THEN <<>> ELSE ns

\* the encoding an XML declaration names, in lower case; <<>> if it names none
Encoding(decl) ==
    LET at == Find(decl, 1, Ord("encoding="))
        close == First(decl, at + 10, LAMBDA c : c = At(decl, at + 9))
    IN  IF at = 0 THEN <<>>
        ELSE [i \in 1..(close - at - 10) |-> AsciiLower(decl[at + 9 + i])]

IsDeclaration(t) == t.kind = "pi" /\ [i \in DOMAIN t.name |-> AsciiLower(t.name[i])] = Ord("xml")

\* the tokens are one document: a root element, every element ended by its
\* own end tag, nothing but white space, comments and instructions around it
WellFormedXml(toks) ==
    LET top == {k \in DOMAIN toks : Depth(toks, k) = 0}
        roots == {k \in top : IsElement(toks[k])}
    IN  /\ \A k \in DOMAIN toks : toks[k].kind # "bad"
        /\ Cardinality(roots) = 1
        /\ Depth(toks, Len(toks) + 1) = 0
        /\ \A k \in DOMAIN toks :
            /\ toks[k].kind = "close" =>
                /\ Parent(toks, k) # 0
                /\ toks[Parent(toks, k)].name = toks[k].name
            /\ IsElement(toks[k]) => Namespace(toks, k) # Unbound
            /\ IsDeclaration(toks[k]) =>
                /\ k = 1
                /\ toks[k].name = Ord("xml")
                \* the bytes handed over are UTF-8 (line 236)
                /\ Encoding(toks[k].text) \in {<<>>, Ord("utf-8")}
        /\ \A k \in top :
            /\ toks[k].kind # "cdata"
            /\ toks[k].kind = "text" => \A i \in DOMAIN toks[k].text : XmlSpace(toks[k].text[i])
            /\ toks[k].kind = "doctype" =>
                \A j \in top : (IsElement(toks[j]) \/ toks[j].kind = "doctype") => k <= j

\* a byte order mark at the start of the text is no part of the document
ByteOrderMark == 65279
WithoutMark(text) == IF At(text, 1) = ByteOrderMark THEN Tail(text) ELSE text

\* ET.fromstring(text.encode("utf-8", errors="ignore")), line 236: the tokens
\* of the document, or the error of the parser
fromstring(text) ==
    With(Tokens(WithoutMark(text)), LAMBDA toks :
        IF WellFormedXml(toks) THEN [ok |-> TRUE, toks |-> toks]
        ELSE [ok |-> FALSE, toks |-> <<>>])

\* node.text: the text between the start tag at token k and the first child
\* or the end tag
RECURSIVE NodeText(_, _)
NodeText(toks, k) ==
    IF k > Len(toks) \/ toks[k].kind \in {"open", "empty", "close"} THEN <<>>
    ELSE (IF toks[k].kind \in {"text", "cdata"} THEN toks[k].text ELSE <<>>)
            \o NodeText(toks, k + 1)

\* str.strip(): the white space of Unicode
IsSpace(c) ==
    \/ c \in 9..13 \/ c \in 28..32 \/ c \in {133, 160, 5760, 8232, 8233, 8239, 8287, 12288}
    \/ c \in 8192..8202
Strip(text) ==
    With(text, LAMBDA s :
        LET first == First(s, 1, LAMBDA c : ~IsSpace(c))
            last == CHOOSE j \in first..Len(s) :
                        ~IsSpace(s[j]) /\ \A k \in (j + 1)..Len(s) : IsSpace(s[k])
        IN  IF first > Len(s) THEN <<>> ELSE SubSeq(s, first, last))

\* text_of, lines 175-178; node 0 is None
text_of(toks, node) ==
    With(node, LAMBDA k :
        IF k = 0 \/ toks[k].kind = "empty" THEN <<>> ELSE Strip(NodeText(toks, k + 1)))

\* a path step: a tag without namespace ("title") or in any ("{*}title")
Plain(n) == [any |-> FALSE, local |-> Ord(n)]
AnyNs(n) == [any |-> TRUE, local |-> Ord(n)]

Matches(toks, k, path) ==
    /\ IsElement(toks[k])
    /\ Local(toks[k].name) = path.local
    /\ path.any \/ Namespace(toks, k) = <<>>

\* parent.find(path): the first child that matches, 0 for None
find(toks, parent, path) ==
    LET found == {k \in DOMAIN toks : Parent(toks, k) = parent /\ Matches(toks, k, path)}
    IN  IF found = {} THEN 0 ELSE CHOOSE k \in found : \A j \in found : k <= j

\* parent.findall(path): the children that match, in document order
findall(toks, parent, path) ==
    SelectSeq([k \in DOMAIN toks |-> k],
              LAMBDA k : Parent(toks, k) = parent /\ Matches(toks, k, path))

\* root.findall(".//" + path): the elements below the root that match
findall_below(toks, path) ==
    SelectSeq([k \in DOMAIN toks |-> k],
              LAMBDA k : Depth(toks, k) >= 1 /\ Matches(toks, k, path))

\* len(element): the number of its children
HasChildren(toks, k) == \E j \in DOMAIN toks : IsElement(toks[j]) /\ Parent(toks, j) = k

-----------------------------------------------------------------------------
(* html.unescape *)

\* what a reference to one of the characters 128..159 stands for
Cp1252 ==
    << 8364, 129, 8218, 402, 8222, 8230, 8224, 8225,
       710, 8240, 352, 8249, 338, 141, 381, 143,
       144, 8216, 8217, 8220, 8221, 8226, 8211, 8212,
       732, 8482, 353, 8250, 339, 157, 382, 376 >>

\* the text a reference to the character number n stands for
HtmlChar(n) ==
    CASE n = 0 \/ n \in 55296..57343 \/ n > 1114111 -> <<Replacement>>
      [] n \in 128..159 -> <<Cp1252[n - 127]>>
      [] n \in 1..8 \/ n = 11 \/ n \in 14..31 \/ n = 127 \/ n \in 64976..65007
            \/ n % 65536 \in {65534, 65535} -> <<>>
      [] OTHER -> <<n>>

\* html.entities.html5, an excerpt: the names of name2codepoint with their
\* semicolon and, apos apart, without it; 0 for a name that is not in it
html5(n) ==
    With(IF EndsWith(n, <<Semi>>) THEN SubSeq(n, 1, Len(n) - 1) ELSE n, LAMBDA bare :
    With(name2codepoint, LAMBDA table :
        IF bare \in DOMAIN table /\ (bare # Ord("apos") \/ bare # n)
        THEN table[bare]
        ELSE 0))

\* a name ends before one of these: [^\t\n\f <&#;]
NameStop(c) == c \in {9, 10, 12, 32, LT, Amp, Hash, Semi}
MaxName == 32

Stray(p) == [new |-> <<Amp>>, next |-> p + 1]

\* the & at position p followed by #: what replaces the reference and where
\* the text goes on
CharRef(s, p) ==
    With(At(s, p + 2) \in {120, 88}, LAMBDA hex :
    With(IF hex THEN p + 3 ELSE p + 2, LAMBDA from :
    With(First(s, from, LAMBDA c : IF hex THEN ~IsHex(c) ELSE ~IsDigit(c)), LAMBDA stop :
        IF stop = from THEN Stray(p)
        ELSE [new |-> HtmlChar(Number(SubSeq(s, from, stop - 1), IF hex THEN 16 ELSE 10)),
              next |-> IF At(s, stop) = Semi THEN stop + 1 ELSE stop])))

\* the & at position p followed by a name: the name, else its longest
\* beginning that is a name, else the & stays
NamedRef(s, p) ==
    With(Min(First(s, p + 1, NameStop), p + 1 + MaxName), LAMBDA stop :
    With(IF At(s, stop) = Semi THEN stop ELSE stop - 1, LAMBDA last :
    With([x \in 1..(last - p) |-> html5(SubSeq(s, p + 1, p + x))] \o <<>>, LAMBDA known :
    With({x \in 2..(Len(known) - 1) : known[x] # 0}, LAMBDA cuts :
        IF stop = p + 1 THEN Stray(p)
        ELSE IF known[Len(known)] # 0
        THEN [new |-> <<known[Len(known)]>>, next |-> last + 1]
        ELSE IF cuts # {}
        THEN With(CHOOSE x \in cuts : \A y \in cuts : y <= x, LAMBDA cut :
                [new |-> <<known[cut]>>, next |-> p + 1 + cut])
        ELSE Stray(p)))))

\* int() of a text of more than this many decimal digits raises ValueError
MaxStrDigits == 4300
IntLimit == "Exceeds the limit (4300 digits) for integer string conversion"

\* html.unescape raises: int(s[1:].rstrip(';')) of a decimal reference with
\* too many digits
unescape_raises(s) ==
    \E p \in DOMAIN s :
        /\ s[p] = Amp
        /\ At(s, p + 1) = Hash
        /\ First(s, p + 2, LAMBDA c : ~IsDigit(c)) - (p + 2) > MaxStrDigits

\* html.unescape of the text from position i on
RECURSIVE html_unescape(_, _)
html_unescape(s, i) ==
    With(First(s, i, LAMBDA c : c = Amp), LAMBDA p :
        IF p > Len(s) THEN SubSeq(s, i, Len(s))
        ELSE With(IF At(s, p + 1) = Hash THEN CharRef(s, p) ELSE NamedRef(s, p),
                  LAMBDA r : SubSeq(s, i, p - 1) \o r.new \o html_unescape(s, r.next)))

-----------------------------------------------------------------------------
(* parse_feed *)

Entry(source, title, link, uid, published) ==
    [source |-> source, title |-> title, link |-> link, uid |-> uid,
     published |-> published]

NoTitle == Ord("(no title)")

\* a or b of two strings
Or(a, b) == With(a, LAMBDA x : IF x # <<>> THEN x ELSE b)

\* find_first_text, lines 181-188
find_first_text(toks, parent, tags) ==
    With([i \in DOMAIN tags |-> text_of(toks, find(toks, parent, tags[i]))] \o <<>>,
         LAMBDA texts :
        LET full == {i \in DOMAIN tags : texts[i] # <<>>}
        IN  IF full = {} THEN <<>>
            ELSE texts[CHOOSE i \in full : \A j \in full : i <= j])

\* extract_link_rss, lines 191-200; an element without children is false
extract_link_rss(toks, item) ==
    With(find(toks, item, Plain("link")), LAMBDA plain :
    With(find(toks, item, AnyNs("link")), LAMBDA any :
    With(Or(text_of(toks, plain), text_of(toks, any)), LAMBDA link :
        LET link_el == IF plain # 0 /\ HasChildren(toks, plain) THEN plain ELSE any
        IN  IF link # <<>> THEN link
            ELSE IF link_el # 0 THEN Attr(toks[link_el], Ord("href"))
            ELSE <<>>)))

\* extract_link_atom, lines 203-215
extract_link_atom(toks, entry) ==
    With(findall(toks, entry, AnyNs("link")), LAMBDA links :
    LET href(i) == Attr(toks[links[i]], Ord("href"))
        rel(i) == Lower(Attr(toks[links[i]], Ord("rel")))
        alternate == {i \in DOMAIN links :
                        href(i) # <<>> /\ rel(i) \in {<<>>, Ord("alternate")}}
        linked == {i \in DOMAIN links : href(i) # <<>>}
    IN  IF alternate # {} THEN href(CHOOSE i \in alternate : \A j \in alternate : i <= j)
        ELSE IF linked # {} THEN href(CHOOSE i \in linked : \A j \in linked : i <= j)
        ELSE <<>>)

\* lines 263-268: the entry of one item of an RSS document
RssEntry(toks, it, source) ==
    With(Or(find_first_text(toks, it, <<Plain("title"), AnyNs("title")>>), NoTitle),
         LAMBDA title :
    With(extract_link_rss(toks, it), LAMBDA link :
        LET uid == Or(find_first_text(toks, it,
                                      <<Plain("guid"), AnyNs("guid"), AnyNs("id")>>),
                      Or(link, title))
            pub == find_first_text(toks, it, <<Plain("pubDate"), AnyNs("pubDate"),
                                               AnyNs("published"), AnyNs("updated")>>)
        IN  Entry(source, title, link, uid, pub)))

\* lines 273-278: the entry of one entry of an Atom document
AtomEntry(toks, en, source) ==
    With(Or(find_first_text(toks, en, <<AnyNs("title")>>), NoTitle), LAMBDA title :
    With(extract_link_atom(toks, en), LAMBDA link :
        LET uid == Or(find_first_text(toks, en, <<AnyNs("id")>>), Or(link, title))
            pub == find_first_text(toks, en, <<AnyNs("updated"), AnyNs("published")>>)
        IN  Entry(source, title, link, uid, pub)))

\* re.search(r"(?is)<tag\b[^>]*>(.*?)</tag>", s) from position i on: where the
\* group is, and where the match ends; found is false if there is no match
Block(s, i, tag) ==
    LET Opens(p) ==
            /\ HasAtNoCase(s, p, <<LT>> \o tag)
            /\ ~IsWord(At(s, p + Len(tag) + 1))
            /\ \E g \in (p + Len(tag) + 1)..Len(s) : s[g] = GT
        starts == {p \in i..Len(s) : Opens(p)}
        p == CHOOSE q \in starts : \A r \in starts : q <= r
        g == First(s, p + Len(tag) + 1, LAMBDA c : c = GT)
        c == FindNoCase(s, g + 1, Ord("</") \o tag \o <<GT>>)
    IN  IF starts = {} \/ c = 0 THEN [found |-> FALSE, from |-> 0, to |-> 0, end |-> 0]
        ELSE [found |-> TRUE, from |-> g + 1, to |-> c - 1, end |-> c + Len(tag) + 2]

\* the group of the first match in s, <<>> if there is none
Group(s, tag) ==
    LET b == Block(s, 1, Ord(tag))
    IN  IF b.found THEN SubSeq(s, b.from, b.to) ELSE <<>>

\* re.findall(r"(?is)<item\b[^>]*>(.*?)</item>", text), line 240
RECURSIVE ItemBlocks(_, _)
ItemBlocks(s, i) ==
    LET b == Block(s, i, Ord("item"))
    IN  IF b.found THEN <<SubSeq(s, b.from, b.to)>> \o ItemBlocks(s, b.end + 1)
        ELSE <<>>

\* re.sub(r"^<!\[CDATA\[(.*)\]\]>$", r"\1", s, flags=re.S)
WithoutCData(text) ==
    With(text, LAMBDA s :
        IF HasAt(s, 1, Ord("<![CDATA[")) /\ EndsWith(s, Ord("]]>")) /\ Len(s) >= 12
        THEN SubSeq(s, 10, Len(s) - 3)
        ELSE s)

FallbackCap == 200

\* html_unescape((m.group(1) if m else "").strip()) of lines 246-249
Field(raw, tag) == With(Strip(Group(raw, tag)), LAMBDA s : html_unescape(s, 1))

\* lines 242-254: the entry of one <item> block of a broken document
RegexEntry(raw, source) ==
    With(Field(raw, "title"), LAMBDA t :
    With(Field(raw, "link"), LAMBDA l :
        LET uid == Or(Field(raw, "guid"), Or(l, t))
            pub == Field(raw, "pubdate")
            title == Or(Strip(WithoutCData(t)), NoTitle)
            link == Strip(WithoutCData(l))
        IN  Entry(source, title, link, uid, pub)))

\* lines 246-249: one of the four html_unescape calls of a block raises
RegexRaises(raw) ==
    \E tag \in {"title", "link", "guid", "pubdate"} :
        With(Strip(Group(raw, tag)), unescape_raises)

\* lines 238-255: the entries of the <item> blocks of the text, unless
\* html_unescape raises on the way
Fallback(text, source) ==
    With(ItemBlocks(text, 1), LAMBDA blocks :
        IF \E i \in 1..Min(Len(blocks), FallbackCap) : RegexRaises(blocks[i])
        THEN [tier |-> "raised", entries |-> <<>>]
        ELSE [tier |-> "regex",
              entries |-> [i \in 1..Min(Len(blocks), FallbackCap) |->
                              With(blocks[i], LAMBDA raw : RegexEntry(raw, source))]
                          \o <<>>])

\* lines 257-279: the entries of the items, else of the entries, of the tree
Strict(toks, source) ==
    With(Or(findall_below(toks, Plain("item")), findall_below(toks, AnyNs("item"))),
         LAMBDA items :
        IF items # <<>>
        THEN [tier |-> "rss",
              entries |-> [i \in DOMAIN items |->
                              With(items[i], LAMBDA it : RssEntry(toks, it, source))]
                          \o <<>>]
        ELSE With(findall_below(toks, AnyNs("entry")), LAMBDA entries_ :
                [tier |-> "atom",
                 entries |-> [i \in DOMAIN entries_ |->
                                With(entries_[i], LAMBDA en : AtomEntry(toks, en, source))]
                             \o <<>>]))

\* parse_feed, lines 218-279: the entries, and the tier that produced them;
\* tier "raised" when an exception leaves parse_feed
parse_feed(data, source) ==
    With(Sanitized(data), LAMBDA text :
    With(fromstring(text), LAMBDA doc :
        IF ~doc.ok THEN Fallback(text, source) ELSE Strict(doc.toks, source)))

-----------------------------------------------------------------------------
(* fetch and looks_like_html, on the bytes of the payload *)

\* resp.read(amt), line 134: at most amt bytes of the body, the whole body for
\* -1, and ValueError for a smaller amt
read(body, amt) ==
    IF amt < 0 - 1
    THEN [ok |-> FALSE, err |-> "read length must be non-negative or -1", data |-> <<>>]
    ELSE IF amt = 0 - 1 THEN [ok |-> TRUE, err |-> "", data |-> body]
    ELSE [ok |-> TRUE, err |-> "", data |-> SubSeq(body, 1, Min(amt, Len(body)))]

\* resp.read(max_bytes): as many bytes as the cap allows
ReadAmountExact(max_bytes) == max_bytes

\* the number of bytes line 134 asks for
ReadAmount(max_bytes) == max_bytes + 1

\* fetch, lines 131-137, of a url the network answers with resp
fetch_url(resp, max_bytes) ==
    IF resp.kind = "error" THEN [ok |-> FALSE, err |-> resp.err, data |-> <<>>]
    ELSE With(read(resp.body, ReadAmount(max_bytes)), LAMBDA got :
            IF ~got.ok THEN got
            ELSE IF Len(got.data) > max_bytes
            THEN [ok |-> FALSE, err |-> "feed_too_large", data |-> <<>>]
            ELSE got)

HeadBytes == 600

\* bytes.lstrip strips these
ByteSpace(b) == b \in {32, 9, 10, 11, 12, 13}

\* looks_like_html, lines 140-142
looks_like_html(data) ==
    With(SubSeq(data, 1, Min(Len(data), HeadBytes)), LAMBDA cut :
    With(First(cut, 1, LAMBDA b : ~ByteSpace(b)), LAMBDA start :
    With([i \in 1..(Len(cut) - start + 1) |-> AsciiLower(cut[start + i - 1])] \o <<>>,
         LAMBDA head :
        \/ HasAt(head, 1, Ord("<!doctype html"))
        \/ HasAt(head, 1, Ord("<html"))
        \/ Find(head, 1, Ord("<html")) # 0)))

-----------------------------------------------------------------------------
(* parse_html_links, for pages whose anchors have no dot segment, query or  *)
(* fragment in an href that starts with a slash                             *)

Backslash == 92

\* the class ["\\\'] of line 151
HrefQuote(c) == c \in {Quote, Backslash, Apos}

\* href=["\\']([^"\\']+)["\\'][^>]*>(.*?)</a> of line 151 tried at position h
HrefAt(s, h) ==
    With(First(s, h + 6, HrefQuote), LAMBDA close :
    With(First(s, close + 1, LAMBDA c : c = GT), LAMBDA gt :
    With(FindNoCase(s, gt + 1, Ord("</a>")), LAMBDA end :
        [ok |-> /\ HasAtNoCase(s, h, Ord("href="))
                /\ HrefQuote(At(s, h + 5))
                /\ close > h + 6
                /\ close <= Len(s)
                /\ gt <= Len(s)
                /\ end # 0,
         href |-> SubSeq(s, h + 6, close - 1),
         label |-> SubSeq(s, gt + 1, end - 1),
         end |-> end + 3])))

\* the match of the expression of line 151 that starts at p
Anchor(s, p) ==
    With(IF HasAtNoCase(s, p, Ord("<a")) /\ ~IsWord(At(s, p + 2))
         THEN {h \in (p + 2)..(First(s, p + 2, LAMBDA c : c = GT) - 1) :
                  HasAtNoCase(s, h, Ord("href=")) /\ HrefAt(s, h).ok}
         ELSE {},
         LAMBDA hs :
        IF hs # {}
        THEN With(HrefAt(s, CHOOSE x \in hs : \A y \in hs : y <= x), LAMBDA m :
                [found |-> TRUE, href |-> m.href, label |-> m.label, end |-> m.end])
        ELSE [found |-> FALSE, href |-> <<>>, label |-> <<>>, end |-> 0])

\* re.findall of line 151, from position i on
RECURSIVE Anchors(_, _)
Anchors(s, i) ==
    With([p \in i..Len(s) |-> Anchor(s, p)], LAMBDA at :
    With({p \in i..Len(s) : at[p].found}, LAMBDA ps :
        IF ps = {} THEN <<>>
        ELSE With(at[CHOOSE p \in ps : \A q \in ps : p <= q], LAMBDA a :
                <<a>> \o Anchors(s, a.end + 1))))

\* re.sub(r"(?is)<[^>]+>", " ", label), line 164
RECURSIVE WithoutTags(_, _)
WithoutTags(s, i) ==
    With({p \in i..Len(s) :
            /\ s[p] = LT
            /\ \E gt \in {First(s, p + 1, LAMBDA c : c = GT)} :
                    gt <= Len(s) /\ gt > p + 1},
         LAMBDA ps :
        IF ps = {} THEN SubSeq(s, i, Len(s))
        ELSE With(CHOOSE x \in ps : \A y \in ps : x <= y, LAMBDA p :
             With(First(s, p + 1, LAMBDA c : c = GT), LAMBDA gt :
                SubSeq(s, i, p - 1) \o <<32>> \o WithoutTags(s, gt + 1))))

\* " ".join(s.split()), line 165
Squeezed(text) ==
    With(text, LAMBDA s :
        LET Kept(i) ==
                \/ ~IsSpace(s[i])
                \/ /\ i > 1 /\ ~IsSpace(s[i - 1])
                   /\ \E j \in (i + 1)..Len(s) : ~IsSpace(s[j])
        IN  With(SelectSeq([i \in 1..Len(s) |-> i], Kept), LAMBDA at :
                [k \in DOMAIN at |-> IF IsSpace(s[at[k]]) THEN 32 ELSE s[at[k]]]))

\* urljoin(base_url, href) of line 160, href starting with a slash
urljoin(base_url, href) ==
    With(Find(base_url, 1, Ord("://")), LAMBDA colon :
        IF HasAt(href, 1, Ord("//")) THEN SubSeq(base_url, 1, colon) \o href
        ELSE SubSeq(base_url, 1, First(base_url, colon + 3, LAMBDA c : c = Slash) - 1)
             \o href)

AnchorCap == 4000
LinkCap == 80
MinTitle == 12

\* lines 154-169: the entry of one anchor; kept is false where the loop continues
LinkEntry(a, source, base_url) ==
    With(Strip(a.href), LAMBDA stripped :
    With(IF HasAt(stripped, 1, <<Slash>>) THEN urljoin(base_url, stripped) ELSE stripped,
         LAMBDA href :
    With(html_unescape(Squeezed(WithoutTags(a.label, 1)), 1), LAMBDA title :
        LET kept ==
                /\ stripped # <<>>
                /\ ~HasAt(stripped, 1, <<Hash>>)
                /\ \/ HasAt(stripped, 1, Ord("http://"))
                   \/ HasAt(stripped, 1, Ord("https://"))
                   \/ HasAt(stripped, 1, <<Slash>>)
                /\ ~(Find(base_url, 1, Ord("berlin.de")) # 0
                        /\ Find(href, 1, Ord("pressemitteilung.")) = 0)
                /\ Len(title) >= MinTitle
        IN  [kept |-> kept, entry |-> Entry(source, title, href, href, None)])))

\* lines 155-165: the anchor gets as far as html_unescape, which raises
LinkRaises(a, base_url) ==
    With(Strip(a.href), LAMBDA stripped :
    With(IF HasAt(stripped, 1, <<Slash>>) THEN urljoin(base_url, stripped) ELSE stripped,
         LAMBDA href :
        /\ stripped # <<>>
        /\ ~HasAt(stripped, 1, <<Hash>>)
        /\ \/ HasAt(stripped, 1, Ord("http://"))
           \/ HasAt(stripped, 1, Ord("https://"))
           \/ HasAt(stripped, 1, <<Slash>>)
        /\ ~(Find(base_url, 1, Ord("berlin.de")) # 0
                /\ Find(href, 1, Ord("pressemitteilung.")) = 0)
        /\ unescape_raises(Squeezed(WithoutTags(a.label, 1)))))

\* parse_html_links, lines 145-172
parse_html_links(data, source, base_url) ==
    With(Anchors(Decode(data), 1), LAMBDA anchors :
    With([i \in 1..Min(Len(anchors), AnchorCap) |->
            With(anchors[i], LAMBDA a : LinkEntry(a, source, base_url))] \o <<>>,
         LAMBDA links :
    With(SelectSeq(links, LAMBDA l : l.kept), LAMBDA out :
        [i \in 1..Min(Len(out), LinkCap) |-> out[i].entry] \o <<>>)))

\* an exception leaves parse_html_links: html_unescape raises at an anchor the
\* loop reaches, before 80 entries are out (line 170)
parse_html_links_raises(data, base_url) ==
    With(Anchors(Decode(data), 1), LAMBDA anchors :
    With([i \in 1..Min(Len(anchors), AnchorCap) |->
            With(anchors[i], LAMBDA a :
                [raises |-> LinkRaises(a, base_url),
                 kept |-> ~LinkRaises(a, base_url)
                            /\ LinkEntry(a, "", base_url).kept])] \o <<>>,
         LAMBDA links :
        \E i \in DOMAIN links :
            /\ links[i].raises
            /\ Cardinality({j \in 1..(i - 1) : links[j].kept}) < LinkCap))

-----------------------------------------------------------------------------
(* One source of one cycle, lines 364-368 and 393-394: from what the network *)
(* has for its url to its entries                                            *)

\* the bytes of a text of ASCII characters in UTF-16, byte order mark first
Utf16(text) ==
    <<255, 254>> \o
    [i \in 1..(2 * Len(text)) |-> IF i % 2 = 1 THEN text[(i + 1) \div 2] ELSE 0]

\* the byte order mark of UTF-8
Utf8Mark == <<239, 187, 191>>

Rss(items) ==
    Ord("<rss version='2.0'><channel><title>Netz</title>") \o items
        \o Ord("</channel></rss>")

ItemFull ==
    Ord("<item><title>Stromausfall in Berlin</title>")
        \o Ord("<link>https://example.org/1</link><guid>g1</guid></item>")
ItemLinked ==
    Ord("<item><title>Zweite Meldung</title><link>https://example.org/2</link></item>")
\* an item without title, link and guid
ItemBare == Ord("<item><description>nur Text</description></item>")
\* an item whose link is a CDATA section
ItemCData == Ord("<item><link><![CDATA[https://example.org/3]]></link></item>")
\* an item with a reference to a character XML does not allow
ItemFormFeed == Ord("<item><title>Seite&#12;zwei</title></item>")
\* an item with a named entity of HTML
ItemCopy == Ord("<item><title>Netz &copy; Berlin</title></item>")

\* titles with an ampersand, written amp: before a letter, between spaces,
\* before a name and a semicolon, before #, at the end, before "amp "
AmpItems(amp) ==
    Ord("<item><title>AT") \o amp \o Ord("T meldet Ausfall</title><guid>g3</guid></item>")
        \o Ord("<item><title>Strom ") \o amp \o Ord(" Gas</title></item>")
        \o Ord("<item><title>Fragen ") \o amp \o Ord("Antworten; heute</title></item>")
        \o Ord("<item><title>Nr ") \o amp \o Ord("#1 und R") \o amp \o Ord("D</title></item>")
        \o Ord("<item><title>Netz ") \o amp \o Ord("amp mehr ") \o amp \o Ord("</title></item>")

FeedPlain == Rss(ItemFull \o ItemLinked)
FeedBare == Rss(ItemBare \o ItemFull)
FeedAmp == Rss(AmpItems(<<Amp>>))
FeedAmpRef == Rss(AmpItems(Ord("&amp;")))
FeedCopy == Rss(ItemCopy)
FeedFormFeed == Rss(ItemFormFeed \o ItemFull)
\* the channel is never closed
FeedCut == Ord("<rss><channel>") \o ItemBare \o ItemCData \o ItemFull
FeedAtom ==
    Ord("<feed xmlns='http://www.w3.org/2005/Atom'><title>Netz</title>")
        \o Ord("<entry><title>Erste Meldung</title><id>tag:1</id>")
        \o Ord("<link rel='self' href='https://example.org/self'/>")
        \o Ord("<link href='https://example.org/a'/></entry>")
        \o Ord("<entry><summary>ohne Titel</summary></entry></feed>")
\* a feed that quotes a page in its first bytes
FeedQuoting ==
    Rss(Ord("<item><title>Seite</title><description><![CDATA[<html>]]>")
            \o Ord("</description></item>"))
NoFeed == Ord("{'error': 'not found'}")
\* a decimal reference of n digits
LongRef(n) == Ord("&#") \o [i \in 1..n |-> 57] \o <<Semi>>
\* a feed and a page with a reference of one digit more than int() converts
FeedLongRef == Rss(Ord("<item><title>Nr ") \o LongRef(MaxStrDigits + 1)
                   \o Ord(" neu</title></item>"))
PageLongRef ==
    Ord("<html><a href='https://example.org/pressemitteilung.3.php'>Meldung Nr ")
        \o LongRef(MaxStrDigits + 1) \o Ord(" neu</a></html>")

PageBody ==
    Ord("<body><a href='/pressemitteilung.1.php'>Stromausfall in <b>Mitte</b></a>")
        \o Ord("<a href='#top'>nach oben, ganz nach oben</a>")
        \o Ord("<a href='/kontakt.php'>Kontakt zur Pressestelle</a>")
        \o Ord("<a href='https://example.org/pressemitteilung.2.php'>kurz</a></body>")
Page == Ord("<!DOCTYPE html><html lang='de'>") \o PageBody \o Ord("</html>")
PageUpper == Ord(" <HTML>") \o PageBody \o Ord("</HTML>")
\* pages without an html tag: the document type alone, after a byte order
\* mark, and after a comment
PageNoTag == Ord("<!doctype html>") \o PageBody
PageMarked == Utf8Mark \o Ord("<!DOCTYPE html>") \o PageBody
PageCommented == Ord("<!-- Stand 2024 --><!DOCTYPE html>") \o PageBody

\* a comment of n bytes
Padding(n) == Ord("<!--") \o [i \in 1..(n - 7) |-> 120] \o Ord("-->")
\* the html tag ends with byte 600, and one byte later
PageLate == Padding(595) \o Ord("<html>") \o PageBody
PageTooLate == Padding(596) \o Ord("<html>") \o PageBody

Bodies ==
    { <<>>, NoFeed, FeedPlain, FeedBare, FeedAmp, FeedAmpRef, FeedCopy, FeedFormFeed,
      FeedCut, FeedAtom, FeedQuoting, Utf16(FeedPlain), Utf16(FeedBare),
      Page, PageUpper, PageNoTag, PageMarked, PageCommented, PageLate, PageTooLate,
      FeedLongRef, PageLongRef }

\* what the network has for a url: an error of urlopen, or a body
Responses ==
    { [kind |-> "error", err |-> "timed out", body |-> <<>>],
      [kind |-> "error", err |-> "HTTP Error 404: Not Found", body |-> <<>>] }
        \cup {[kind |-> "ok", err |-> "", body |-> b] : b \in Bodies}

\* max_bytes of line 346: the default, the length of a payload and one byte
\* less, and a negative number
Caps == {DefaultMaxBytes, Len(FeedPlain), Len(FeedPlain) - 1, 0 - 3}

Urls == {Ord("https://www.berlin.de/sen/presse/"), Ord("https://example.org/feed")}

\* name of line 358
FeedSource == "netz"

\* the loop of line 357 comes to a source
FeedInputs ==
    /\ fdUrl \in Urls
    /\ fdMax \in Caps
    /\ fdResp \in Responses

InitFeed ==
    /\ NotStarted
    /\ NoMatchCall /\ NoStatusCall
    /\ fdPc = "fetch"
    /\ FeedInputs
    /\ fdData = <<>>
    /\ fdCalls = <<>>
    /\ fdEntries = <<>>
    /\ fdTier = "none"
    /\ fdError = None

\* line 364: fetch returns the payload
FeedFetched ==
    /\ fdPc = "fetch"
    /\ \E got \in {fetch_url(fdResp, fdMax)} :
            /\ got.ok
            /\ fdData' = got.data
    /\ fdPc' = "route"
    /\ UNCHANGED <<procVars, matchVars, statusVars, fdUrl, fdMax, fdResp, fdCalls,
                   fdEntries, fdTier, fdError>>

\* lines 364, 393-394: fetch raises, the source is left with its error
FeedFetchFails ==
    /\ fdPc = "fetch"
    /\ \E got \in {fetch_url(fdResp, fdMax)} :
            /\ ~got.ok
            /\ fdError' = ErrText(FeedSource, got.err)
    /\ fdPc' = "failed"
    /\ UNCHANGED <<procVars, matchVars, statusVars, fdUrl, fdMax, fdResp, fdData,
                   fdCalls, fdEntries, fdTier>>

\* lines 365-366: the payload looks like a page; an exception of
\* parse_html_links is caught at line 393
FeedExtractsLinks ==
    /\ fdPc = "route"
    /\ looks_like_html(fdData)
    /\ fdCalls' = Append(fdCalls, "parse_html_links")
    /\ IF parse_html_links_raises(fdData, fdUrl)
       THEN /\ fdError' = ErrText(FeedSource, IntLimit)
            /\ fdPc' = "failed"
            /\ UNCHANGED <<fdEntries, fdTier>>
       ELSE /\ fdEntries' = parse_html_links(fdData, FeedSource, fdUrl)
            /\ fdTier' = "html"
            /\ fdPc' = "done"
            /\ UNCHANGED fdError
    /\ UNCHANGED <<procVars, matchVars, statusVars, fdUrl, fdMax, fdResp, fdData>>

\* lines 367-368: it does not; an exception of parse_feed is caught at line 393
FeedParses ==
    /\ fdPc = "route"
    /\ ~looks_like_html(fdData)
    /\ fdCalls' = Append(fdCalls, "parse_feed")
    /\ \E parsed \in {parse_feed(fdData, FeedSource)} :
            IF parsed.tier = "raised"
            THEN /\ fdError' = ErrText(FeedSource, IntLimit)
                 /\ fdPc' = "failed"
                 /\ UNCHANGED <<fdEntries, fdTier>>
            ELSE /\ fdEntries' = parsed.entries
                 /\ fdTier' = parsed.tier
                 /\ fdPc' = "done"
                 /\ UNCHANGED fdError
    /\ UNCHANGED <<procVars, matchVars, statusVars, fdUrl, fdMax, fdResp, fdData>>

\* line 357: the next source
FeedNextSource ==
    /\ fdPc \in {"done", "failed"}
    /\ fdPc' = "fetch"
    /\ fdUrl' \in Urls
    /\ fdMax' \in Caps
    /\ fdResp' \in Responses
    /\ fdData' = <<>>
    /\ fdCalls' = <<>>
    /\ fdEntries' = <<>>
    /\ fdTier' = "none"
    /\ fdError' = None
    /\ UNCHANGED <<procVars, matchVars, statusVars>>

NextFeed ==
    \/ FeedFetched
    \/ FeedFetchFails
    \/ FeedExtractsLinks
    \/ FeedParses
    \/ FeedNextSource

SpecFeed == InitFeed /\ [][NextFeed]_vars

-----------------------------------------------------------------------------
(* Properties *)

\* the positions among the first k configured sources that have a url
FetchableUpTo(srcs, k) ==
    LET HasUrl(i) == srcs[i].dict /\ srcs[i].url # ""
    IN  SelectSeq([i \in 1..Min(k, Len(srcs)) |-> i], HasUrl)

\* the notify calls made in the current cycle
NotifsNow == {i \in DOMAIN notifs : notifs[i].at = now}

\* the source `entries` came from raised an error after it was parsed
EntSrcFailed == \E i \in DOMAIN errLog : errLog[i].idx = entSrc

\* the loop over the sources is between two sources, or past the last
BetweenSources == pc \in {"src", "final"}

\* C1: a cycle that starts with an empty SeenSet and prime_on_first_run fires
\* no notification, and at its end the entries its sources returned are in
\* the SeenSet (here: even when no file write has failed).
C1_PrimingCycleIsSilent ==
    (outcome = "running" /\ seenAtStart = {} /\ cfg.prime_on_first_run
        /\ faults = 0)
        => /\ NotifsNow = {}
           /\ pc = "final" =>
                \A n \in DOMAIN latest_items :
                    \A i \in DOMAIN latest_items[n] :
                        latest_items[n][i].uid \in seen

\* C2: the same uid, returned by a source in two consecutive cycles, is
\* notified at most once over both cycles (here: even when no file write has
\* failed).
C2_OneNotificationAcrossCycles ==
    faults = 0 =>
        \A i, j \in DOMAIN notifs :
            (notifs[i].uid = notifs[j].uid /\ notifs[i].source = notifs[j].source)
                => notifs[j].at # notifs[i].at + 1

C4_NoTerminalState == pc # "crashed"

\* C5: when run_once raises, main writes ok=false and the error, sleeps the
\* clamped interval and goes on: the process does not end in the handler.
C5_GuardSurvives == ~(pc = "crashed" /\ outcome = "raised")

\* C6: whatever errors the sources before it raised, every source with a url
\* is fetched, in configuration order: at each head of the loop the sources
\* fetched are exactly those with a url so far.
C6_LaterSourcesProcessed ==
    BetweenSources => fetchLog = FetchableUpTo(cfg.sources, srcIdx - 1)

C6_Witness ==
    /\ pc = "final"
    /\ Len(fetchLog) = 2
    /\ \E i \in DOMAIN errLog : errLog[i].idx = fetchLog[1]
    /\ entSrc = fetchLog[2]
    /\ entries # <<>>
    /\ \A i \in DOMAIN entries : entries[i].uid \in seen

\* run_once returned and main sleeps: the aggregate update is the last write
CycleReturned == pc = "sleep" /\ outcome = "returned"

\* C7, as claimed: the update at the end of the cycle carries in last_error
\* the error of every source that failed in the cycle.
C7_EveryErrorInStatus ==
    CycleReturned =>
        \A i \in DOMAIN errLog : status.last_error = errLog[i].text

\* C7, amended: the update at the end of the cycle carries in last_error the
\* error of the last source that failed in the cycle.
C7_LastErrorInStatus ==
    (CycleReturned /\ errLog # <<>>) =>
        status.last_error = errLog[Len(errLog)].text

C7_Witness ==
    /\ CycleReturned
    /\ Len(errLog) = 2
    /\ errLog[1].text # errLog[2].text
    /\ errLog[2].text[2] = "feed_too_large"
    /\ status.last_error = errLog[2].text

\* C8: checked_sources of the cycle's update is the number of configured
\* sources with a non-empty url, failed ones included, skipped ones excluded.
C8_CheckedCountsUrls ==
    CycleReturned =>
        status.checked_sources = Len(FetchableUpTo(cfg.sources, Len(cfg.sources)))

C8_Witness ==
    /\ CycleReturned
    /\ Len(cfg.sources) = 3
    /\ errLog # <<>>
    /\ status.checked_sources = 2

\* a Polling cycle has ended: main sleeps after run_once, or has died in it
PollingCycleEnded == pc \in {"sleep", "crashed"} /\ outcome \in {"returned", "raised"}

\* C9: every Polling cycle ends with a status update that carries this
\* cycle's updated_at, checked_sources, hits, last_error and latest_items,
\* followed by the sleep.
C9_CycleEndsWithUpdate ==
    PollingCycleEnded =>
        /\ pc = "sleep"
        /\ "checked_sources" \in DOMAIN status
        /\ status.updated_at = now
        /\ status.checked_sources = checked
        /\ status.hits = hits
        /\ status.latest_items = latest_items

\* C10: a status write that fails neither skips marking the current uid seen
\* nor aborts the source: every uid notified in the cycle is in the SeenSet
\* when the loop reaches the next source.
C10_NotifiedThenSeen ==
    BetweenSources => \A i \in NotifsNow : notifs[i].uid \in seen

\* the alert or the sound of the entry at hand was not delivered
DeliveryFailed == delivery \in {"no alert", "no sound", "no alert, no sound"}

\* C11: a notification that is not delivered (alert or sound) stops nothing:
\* notify returns, the status of the hit is written, the uid of the entry is
\* marked seen and the loop stands at the next entry of the source with no
\* error recorded for it. Only the write of the status of the hit, when it
\* fails, takes the source to the except clause, as it does after a delivered
\* notification.
C11_DeliveryFailureSwallowed ==
    DeliveryFailed =>
        \/ pc \in {"hitStatus", "append"}
        \/ /\ pc = "entry"
           /\ entries[entIdx - 1].uid \in seen
           /\ notifs[Len(notifs)].uid = entries[entIdx - 1].uid
           /\ hits = Cardinality(NotifsNow)
           /\ ~EntSrcFailed
        \/ /\ BetweenSources
           /\ errLog # <<>>
           /\ errLog[Len(errLog)].text = ErrText(name, "OSError")

C11_Witness ==
    /\ pc = "entry"
    /\ delivery = "no alert, no sound"
    /\ entIdx = 2
    /\ entIdx <= Len(entries)
    /\ entries[1].uid \in seen
    /\ Contains(seenLog, entries[1].uid \o <<NL>>)
    /\ status.last_hit_title = entries[1].title

\* the notify calls of the current cycle for the uid u
NotifsOf(u) == {j \in NotifsNow : notifs[j].uid = u}

\* the cycle started with a SeenSet that is not empty, or priming is off
NoPriming == seenAtStart # {} \/ ~cfg.prime_on_first_run

\* C12: in a cycle that starts with a non-empty SeenSet or with priming off,
\* once a source has been processed, each of its first 80 entries whose uid
\* was not in the SeenSet and whose title matches has got exactly one notify
\* call in the cycle, and its uid is in the SeenSet.
C12_MatchNotifiedOnceAndSeen ==
    (BetweenSources /\ entSrc # 0 /\ NoPriming /\ cfg.match_logic.dict)
        => \A i \in 1..Min(Len(entries), 80) :
              (entries[i].uid \notin seenAtStart
                    /\ match(entries[i].title, cfg.match_logic))
                => /\ Cardinality(NotifsOf(entries[i].uid)) = 1
                   /\ entries[i].uid \in seen

\* the title contains a keyword of the list that is not empty, case ignored
HasKeyword(t, keywords) ==
    \E i \in DOMAIN keywords :
        keywords[i] # <<>> /\ ContainsNoCase(t, keywords[i])

\* C13: match returns false for every title that contains a configured
\* negative keyword (here: one that is not the empty string) as a
\* case-insensitive substring, whatever locations, topics and flags are.
C13_NegativeKeywordRejects ==
    (matchResult \in {"true", "false"}
        /\ HasKeyword(matchTitle, matchLogic.negative_keywords))
        => matchResult = "false"

\* C14: with require_one_location and require_one_topic both true, match
\* returns true only for a title that contains, case ignored, at least one
\* configured location and at least one configured topic.
C14_LocationAndTopicRequired ==
    (matchResult = "true" /\ matchLogic.require_one_location
        /\ matchLogic.require_one_topic)
        => /\ \E i \in DOMAIN matchLogic.locations :
                ContainsNoCase(matchTitle, matchLogic.locations[i])
           /\ \E i \in DOMAIN matchLogic.topics :
                ContainsNoCase(matchTitle, matchLogic.topics[i])

C14_Witness ==
    /\ matchResult = "true"
    /\ matchLogic.require_one_location
    /\ matchLogic.require_one_topic
    /\ matchLogic.locations = << <<98>> >>
    /\ matchLogic.topics = << <<83>> >>
    /\ ~Contains(matchTitle, <<98>>)
    /\ ~Contains(matchTitle, <<83>>)
    /\ Len(matchTitle) = 3

\* main sleeps after a Disabled tick: no run_once in this tick
AfterDisabledTick == pc = "sleep" /\ outcome = "none"

\* main sleeps after a Polling cycle: run_once returned or raised
AfterPollingCycle == pc = "sleep" /\ outcome \in {"returned", "raised"}

\* C15: whatever check_interval_seconds is, the sleep after a Polling cycle
\* is a whole number of seconds from 30 to 3600, the configured number when
\* that lies in the range; the sleep after a Disabled tick is 60 seconds.
C15_SleepWithinBounds ==
    /\ AfterDisabledTick => sleepFor = 60
    /\ AfterPollingCycle =>
          /\ sleepFor \in 30..3600
          /\ cfg.check_interval_seconds.v \in 30..3600
                => sleepFor = cfg.check_interval_seconds.v

C15_Witness ==
    /\ AfterPollingCycle
    /\ cfg.check_interval_seconds = Num(86400)
    /\ sleepFor = 3600
    /\ fetchLog # <<>>

\* the keys a Disabled tick passes to update_status
DisabledKeys == {"ok", "updated_at", "note"}

\* C16: a tick whose config file says enabled=false fetches no source,
\* fires no notification and leaves SeenSet and seen-log alone; it writes
\* ok, updated_at and the note disabled_in_config into the status and goes
\* to the sleep of 60 seconds, or the write fails and there is no effect on
\* any file.
C16_DisabledTickFrame ==
    [][(pc = "tick" /\ configFile.kind = "object" /\ ~configFile.data.enabled)
        => /\ fetchLog' = fetchLog
           /\ notifs' = notifs
           /\ seenLog' = seenLog
           /\ seen' = seen
           /\ \/ /\ pc' = "sleep"
                 /\ sleepFor' = 60
                 /\ DOMAIN status' = DOMAIN status \cup DisabledKeys
                 /\ status'.note = "disabled_in_config"
                 /\ status'.updated_at = now
                 /\ \A k \in DOMAIN status \ DisabledKeys :
                        status'[k] = status[k]
              \/ /\ pc' = "crashed"
                 /\ status' = status]_vars

C16_Witness ==
    /\ AfterDisabledTick
    /\ now = 1
    /\ status.note = "disabled_in_config"
    /\ status.updated_at = 1
    /\ "hits" \in DOMAIN status
    /\ status.hits = 1
    /\ notifs # <<>>
    /\ \A i \in DOMAIN notifs : notifs[i].at = 0
    /\ seenLog # <<>>
    /\ fetchLog = <<>>

\* C17: every tick works on the config file as it is at that tick: what the
\* file holds is the cfg of the tick, whatever the tick before worked on; a
\* tick that polls has found enabled in the file (or no object in it), a
\* tick that goes to the sleep of a Disabled tick has found enabled=false.
C17_ConfigReloadedEachTick ==
    [][pc = "tick" =>
        /\ configFile.kind = "object" => cfg' = configFile.data
        /\ pc' = "src" =>
              /\ cfg'.enabled
              /\ configFile.kind = "object" =>
                    /\ configFile.data.enabled
                    /\ cfg'.sources = configFile.data.sources
                    /\ cfg'.match_logic = configFile.data.match_logic
        /\ pc' = "sleep" =>
              /\ configFile.kind = "object"
              /\ ~configFile.data.enabled]_vars

C17_Witness ==
    /\ now = 1
    /\ pc = "final"
    /\ "note" \in DOMAIN status
    /\ status.updated_at = 0
    /\ status.ok
    /\ Len(fetchLog) = 2
    /\ notifs # <<>>

\* C18: a tick that finds the config file absent, unreadable, no JSON or no
\* JSON object works on the default config, enabled and without sources, and
\* starts a Polling cycle with the default interval instead of failing.
C18_BrokenConfigPollsNothing ==
    [][(pc = "tick" /\ configFile.kind # "object")
        => /\ cfg'.enabled
           /\ cfg'.sources = <<>>
           /\ pc' = "src"
           /\ outcome' = "running"
           /\ interval' = 300]_vars

\* the document in the status file
StatusDocument == Loads(stPath.text)

\* C19: when update_status returns, the status file holds every passed key
\* with the passed value and every other key of the document it held before
\* with the value it had; it holds no other key.
C19_ShallowMerge ==
    stPc = "returned" =>
        /\ stPath.exists
        /\ WellFormed(stPath.text)
        /\ DOMAIN StatusDocument = DOMAIN stPrev \cup DOMAIN stKwargs
        /\ \A k \in DOMAIN stKwargs : StatusDocument[k] = stKwargs[k]
        /\ \A k \in DOMAIN stPrev \ DOMAIN stKwargs :
                StatusDocument[k] = stPrev[k]

C19_Witness ==
    /\ stPc = "returned"
    /\ DOMAIN stPrev = {"note", "ok"}
    /\ DOMAIN stKwargs = {"ok"}
    /\ stPrev.ok # stKwargs.ok
    /\ StatusDocument = [note |-> stPrev.note, ok |-> stKwargs.ok]

\* C20: whenever another process reads the status file, between or during
\* updates, it gets no file or the complete text of a status document.
C20_ReaderSeesWholeDocument ==
    stRead.exists => WellFormed(stRead.text)

C20_Witness ==
    /\ stPc = "write"
    /\ stRead.at
    /\ stRead.exists
    /\ Len(stTmp.text) = 2
    /\ ~WellFormed(stTmp.text)
    /\ stRead.text = stPath.text
    /\ Loads(stRead.text) = stPrev
    /\ stPrev # stBase

\* C21: when the signal the service supervisor stops the job with (SIGTERM,
\* sent by launchd on `launchctl unload`) has ended the process, the stop line
\* is in the log and the exit status is 0
C21_TerminationIsClean ==
    ended.signal = SIGTERM => ended.stop_line /\ ended.status = 0

\* the characters of a document as an XML processor reads them: UTF-16 after
\* the byte order mark of UTF-16, else UTF-8
DocumentText(body) ==
    IF HasAt(body, 1, <<255, 254>>)
    THEN [i \in 1..((Len(body) - 2) \div 2) |-> body[2 * i + 1] + 256 * body[2 * i + 2]]
    ELSE Decode(body)

\* the payload is a well-formed XML document whose root element is rss
WellFormedRss(body) ==
    LET doc == fromstring(DocumentText(body))
        elements == {k \in DOMAIN doc.toks : IsElement(doc.toks[k])}
        root == CHOOSE k \in elements : \A j \in elements : k <= j
    IN  doc.ok /\ elements # {} /\ doc.toks[root].name = Ord("rss")

\* C22: for a well-formed RSS document with N item elements parse_feed returns
\* N entries in document order (the i-th entry has the title of the i-th item,
\* or the placeholder), each with a non-empty title and a non-empty uid.
C22_EveryItemAnEntry ==
    (fdCalls = <<"parse_feed">> /\ fdPc = "done" /\ WellFormedRss(fdData)) =>
        LET toks == fromstring(DocumentText(fdData)).toks
            items == findall_below(toks, Plain("item"))
        IN  /\ Len(fdEntries) = Len(items)
            /\ \A i \in DOMAIN fdEntries :
                /\ fdEntries[i].title
                      = Or(find_first_text(toks, items[i], <<Plain("title")>>), NoTitle)
                /\ fdEntries[i].title # <<>>
                /\ fdEntries[i].uid # <<>>

\* the guid or id of every item of the payload, as the tier that produced the
\* entries reads it: lines 244 and 248, line 264, line 274
Guids(data, source) ==
    With(Sanitized(data), LAMBDA text :
    With(fromstring(text), LAMBDA doc :
        IF ~doc.ok
        THEN With(ItemBlocks(text, 1), LAMBDA blocks :
                [i \in 1..Min(Len(blocks), FallbackCap) |-> Field(blocks[i], "guid")])
        ELSE With(Or(findall_below(doc.toks, Plain("item")),
                     findall_below(doc.toks, AnyNs("item"))), LAMBDA items :
                IF items # <<>>
                THEN [i \in DOMAIN items |->
                        find_first_text(doc.toks, items[i],
                                        <<Plain("guid"), AnyNs("guid"), AnyNs("id")>>)]
                ELSE With(findall_below(doc.toks, AnyNs("entry")), LAMBDA entries_ :
                        [i \in DOMAIN entries_ |->
                            find_first_text(doc.toks, entries_[i], <<AnyNs("id")>>)]))))

\* C23: in every tier of parse_feed the uid of an entry is its guid or id when
\* that is not empty, else its link when that is not empty, else its title.
C23_UidByPriority ==
    (fdCalls = <<"parse_feed">> /\ fdPc = "done") =>
        \E guids \in {Guids(fdData, FeedSource)} :
            /\ Len(guids) = Len(fdEntries)
            /\ \A i \in DOMAIN fdEntries :
                fdEntries[i].uid
                    = Or(guids[i], Or(fdEntries[i].link, fdEntries[i].title))

\* the & at position p is not escaped: it starts neither a character reference
\* nor a reference to an entity of XML or of HTML
Unescaped(s, p) ==
    /\ s[p] = Amp
    /\ \E r \in {RefAt(s, p)} :
        \/ r.kind = "stray"
        \/ r.kind = "name" /\ r.body \notin DOMAIN name2codepoint

\* the reference document: s from position i on, every unescaped & written &amp;
RECURSIVE Escaped(_, _)
Escaped(s, i) ==
    With({p \in i..Len(s) : Unescaped(s, p)}, LAMBDA ps :
        IF ps = {} THEN SubSeq(s, i, Len(s))
        ELSE With(CHOOSE p \in ps : \A q \in ps : p <= q, LAMBDA p :
                SubSeq(s, i, p - 1) \o Ord("&amp;") \o Escaped(s, p + 1)))

\* the only defect of the payload is an unescaped &: it has one, and the
\* reference document is well-formed
OnlyUnescaped(data) ==
    \E ref \in {Escaped(data, 1)} : ref # data /\ fromstring(Decode(ref)).ok

\* C24: for a feed whose only defect is an unescaped & parse_feed takes the
\* strict path and returns the entries of the reference document, in which
\* that & is written &amp;.
C24_UnescapedAmpersand ==
    (fdCalls = <<"parse_feed">> /\ fdPc = "done" /\ OnlyUnescaped(fdData)) =>
        /\ fdTier \in {"rss", "atom"}
        /\ fdEntries = parse_feed(Escaped(fdData, 1), FeedSource).entries

\* C24: parse_feed has returned the five entries of the feed with an
\* unescaped & in each title
C24_Witness ==
    /\ fdCalls = <<"parse_feed">>
    /\ fdPc = "done"
    /\ OnlyUnescaped(fdData)
    /\ Escaped(fdData, 1) = FeedAmpRef
    /\ fdTier = "rss"
    /\ Len(fdEntries) = 5
    /\ fdEntries[1].title = Ord("AT&T meldet Ausfall")
    /\ fdEntries[3].title = Ord("Fragen &Antworten; heute")
    /\ fdEntries[5].title = Ord("Netz &amp mehr &")

WrittenAt(uid) ==
    {p \in 1..Len(seenLog) :
        /\ p = 1 \/ seenLog[p - 1] = NL
        /\ HasAt(seenLog, p, uid \o <<NL>>)}

\* C26: no uid is written to the seen-log more than once, over any number of
\* cycles and sources, also when several sources or one feed return it
\* several times.
C26_WrittenOnce ==
    \A r \in pool : \A i \in DOMAIN r.items : Cardinality(WrittenAt(r.items[i].uid)) <= 1

\* C27: within one cycle the fetches made so far are the first of the sources
\* with a url, each once and in configuration order (no source is fetched
\* again after a failure), and when the cycle is over every one of them has
\* been fetched.
C27_EachSourceOnce ==
    LET all == FetchableUpTo(cfg.sources, Len(cfg.sources))
    IN  /\ Len(fetchLog) <= Len(all)
        /\ \A i \in DOMAIN fetchLog : fetchLog[i] = all[i]
        /\ PollingCycleEnded => fetchLog = all

\* C28: once fetch is over for a payload the network delivered, a payload
\* longer than max_bytes has made it fail (no extractor was called and no
\* data was kept) and a payload of at most max_bytes, also one of exactly
\* max_bytes, is the data handed on, whole and unchanged.
C28_CapIsExact ==
    (fdPc # "fetch" /\ fdResp.kind = "ok") =>
        IF Len(fdResp.body) > fdMax
        THEN fdPc = "failed" /\ fdCalls = <<>> /\ fdData = <<>> /\ fdError # None
        ELSE fdData = fdResp.body /\ (fdPc = "route" \/ fdCalls # <<>>)

\* C28: a payload of exactly max_bytes has been fetched and parsed
C28_Witness ==
    /\ fdPc = "done"
    /\ fdResp.kind = "ok"
    /\ Len(fdResp.body) = fdMax
    /\ fdData = FeedPlain
    /\ Len(fdEntries) = 2

\* the first 600 bytes of the payload contain, in any case of the letters, an
\* HTML doctype or <html
HtmlHead(data) ==
    \E head \in {SubSeq(data, 1, Min(Len(data), 600))} :
        \/ FindNoCase(head, 1, Ord("<!doctype html")) # 0
        \/ FindNoCase(head, 1, Ord("<html")) # 0

\* C29: a payload that was fetched is handed to exactly one extractor:
\* parse_html_links if its first 600 bytes contain an HTML doctype or <html,
\* else parse_feed.
C29_OneExtractor ==
    (fdPc \in {"done", "failed"} /\ fdResp.kind = "ok" /\ Len(fdResp.body) <= fdMax) =>
        fdCalls = << IF HtmlHead(fdData) THEN "parse_html_links" ELSE "parse_feed" >>

\* ---------------------------------------------------------------------------
\* C30: parse_feed never raises.  Once parse_feed was called for a source the
\* source is processed and no error is recorded for it; when strict parsing
\* fails and the regex fallback finds no item block the entry list is empty.
\* ---------------------------------------------------------------------------
NothingToParse(data) ==
    With(Sanitized(data), LAMBDA text :
        ~fromstring(text).ok /\ ItemBlocks(text, 1) = <<>>)

C30_NeverRaises ==
    fdCalls = <<"parse_feed">> =>
        /\ fdPc = "done"
        /\ fdError = None
        /\ NothingToParse(fdData) => fdEntries = <<>> /\ fdTier = "regex"

\* ---------------------------------------------------------------------------
\* C31: after every keyword hit the status file's last_hit_title,
\* last_hit_link and last_hit_source are those of the most recent hit, and
\* they persist unchanged through later cycles that produce no hit.
\* ---------------------------------------------------------------------------
HitKeys == {"last_hit_title", "last_hit_link", "last_hit_source"}

\* the last_hit_* part of a status document
LastHit(doc) == [k \in HitKeys \cap DOMAIN doc |-> doc[k]]

\* the entry of the most recent call of notify, as the source returned it
HitEntry ==
    LET n == notifs[Len(notifs)]
    IN  CHOOSE e \in UNION {Range(Parsed(r, n.source)) : r \in pool} : e.uid = n.uid

FirstTen(es) ==
    [i \in 1..(IF Len(es) < 10 THEN Len(es) ELSE 10) |->
        [title |-> es[i].title, link |-> es[i].link,
         published |-> es[i].published, uid |-> es[i].uid]]

\* C32: a source that has been fetched and parsed puts the first 10 of its
\* entries under its name and leaves the other names alone, nothing else
\* changes the map within the cycle, and the update at the end of the cycle
\* writes the map as it is
C32_LatestItemsFirstTen ==
    [][/\ IF pc = "src" /\ pc' \in {"prime", "entry"}
          THEN /\ DOMAIN latest_items' = DOMAIN latest_items \cup {name'}
               /\ latest_items'[name'] = FirstTen(entries')
               /\ \A k \in DOMAIN latest_items \ {name'} :
                      latest_items'[k] = latest_items[k]
          ELSE latest_items' = latest_items \/ latest_items' = EmptyObj
       /\ (pc = "final" /\ pc' = "sleep") =>
            /\ status'.latest_items = latest_items
            /\ \A k \in DOMAIN latest_items : Len(latest_items[k]) <= 10]_vars

\* C32 witness: a cycle whose first source returned 82 entries and whose second
\* source returned one has written its update
C32_Witness ==
    /\ CycleReturned
    /\ DOMAIN status.latest_items = {"rbb24", "berlin"}
    /\ Len(status.latest_items["rbb24"]) = 10
    /\ \A i \in 1..10 : status.latest_items["rbb24"][i].uid = BigItems[i].uid
    /\ Len(status.latest_items["berlin"]) = 1
    /\ Len(entries) = 1

\* ---------------------------------------------------------------------------
\* C33: with require_one_location and require_one_topic both false, match
\* returns true if and only if the title contains no negative keyword (here:
\* none that is not the empty string), case ignored, even when the locations
\* and topics lists are empty.
\* ---------------------------------------------------------------------------
C33_OnlyNegativesDecide ==
    (matchResult \in {"true", "false"}
        /\ ~matchLogic.require_one_location /\ ~matchLogic.require_one_topic)
        => (matchResult = "true"
                <=> ~HasKeyword(matchTitle, matchLogic.negative_keywords))

\* ---------------------------------------------------------------------------
\* C34: the hits value in a cycle's status update equals the number of
\* notification calls made during that cycle, and is 0 in a cycle in which
\* every source was primed.
\* ---------------------------------------------------------------------------
\* the fetch of the source at position i failed in this cycle
FetchFailed(i) ==
    \E k \in DOMAIN errLog :
        errLog[k].idx = i /\ errLog[k].text[2] \in {"timed out", "feed_too_large"}

\* every source of the cycle that returned a payload was primed, and there
\* is one
EverySourcePrimed ==
    /\ primedLog # <<>>
    /\ \A i \in Range(fetchLog) : i \in Range(primedLog) \/ FetchFailed(i)

C34_HitsCountNotifications ==
    CycleReturned =>
        /\ status.hits = Cardinality(NotifsNow)
        /\ EverySourcePrimed => status.hits = 0

\* C34 witness: the update of the second cycle reports the one notification
\* of that cycle, not the one of the cycle before and not the two sources
C34_Witness ==
    /\ CycleReturned
    /\ now = 1
    /\ Len(notifs) = 2 /\ notifs[1].at = 0 /\ notifs[2].at = 1
    /\ status.hits = 1
    /\ status.checked_sources = 2

\* ---------------------------------------------------------------------------
\* C35: within a single cycle no uid triggers more than one notification,
\* even when several sources return the same uid and even when every append
\* to the seen-log fails.
\* ---------------------------------------------------------------------------
C35_OneNotificationPerUid ==
    \A i, j \in NotifsNow : notifs[i].uid = notifs[j].uid => i = j

\* ---------------------------------------------------------------------------
\* C36: for a matched entry the order of effects is: notification call, then
\* status update with last_hit_*, then append of the uid to the seen-log; a
\* uid is never in the seen-log before its notification has been attempted,
\* so a stop of the process between the two yields a repeated notification on
\* the next run, not a lost one.
\* ---------------------------------------------------------------------------
\* the entry at hand is the one the most recent call of notify, made in this
\* cycle for this source, was about
NotifiedNow ==
    /\ notifs # <<>>
    /\ notifs[Len(notifs)].uid = entries[entIdx].uid
    /\ notifs[Len(notifs)].source = name
    /\ notifs[Len(notifs)].at = now

C36_NotifyThenStatusThenSeen ==
    [][/\ notifs' # notifs =>
            /\ pc = "notify" /\ pc' = "hitStatus"
            /\ entries[entIdx].uid \notin seen
            /\ seenLog' = seenLog /\ seen' = seen /\ status' = status
       /\ pc = "hitStatus" =>
            /\ NotifiedNow
            /\ entries[entIdx].uid \notin load_seen(seenLog)
            /\ seenLog' = seenLog /\ seen' = seen /\ notifs' = notifs
            /\ pc' = "append" => LastHit(status')["last_hit_title"] = entries[entIdx].title
       /\ (pc = "append" /\ match(entries[entIdx].title, cfg.match_logic)) =>
            /\ NotifiedNow
            /\ LastHit(status)["last_hit_title"] = entries[entIdx].title
            /\ entries[entIdx].uid \notin seen
            /\ seenLog' \in {seenLog, seenLog \o entries[entIdx].uid \o <<NL>>}
            /\ notifs' = notifs /\ status' = status]_vars

\* C36 witness: an entry has been notified and its hit is in the status file,
\* the seen-log holds another uid and not yet this one
C36_Witness ==
    /\ pc = "append"
    /\ match(entries[entIdx].title, cfg.match_logic)
    /\ NotifiedNow
    /\ status.last_hit_title = entries[entIdx].title
    /\ status.last_hit_source = name
    /\ seenLog # <<>>
    /\ entries[entIdx].uid \notin load_seen(seenLog)
    /\ entries[entIdx].uid \notin seen
    /\ ~Contains(seenLog, entries[entIdx].uid)

\* ---------------------------------------------------------------------------
\* C37: seen-log round trip: for every uid an entry can carry, after a
\* successful append_seen(uid) the set load_seen returns contains that uid.
\* ---------------------------------------------------------------------------
C37_SeenRoundTrip ==
    [][seenLog' # seenLog => entries[entIdx].uid \in load_seen(seenLog')]_vars

\* ---------------------------------------------------------------------------
\* C38: priming stays armed as long as the SeenSet is empty: when every source
\* of a cycle returned zero entries or failed, the next cycle still starts
\* with an empty SeenSet and primes again, so the first entries that ever
\* appear are marked seen without being matched or notified.
\* ---------------------------------------------------------------------------
\* the status file still holds the update of the cycle before this one, and
\* in that cycle sources were checked and none returned an entry
NothingLastCycle ==
    /\ now >= 1
    /\ outcome = "running"
    /\ "latest_items" \in DOMAIN status
    /\ status.ok /\ status.updated_at = now - 1
    /\ status.checked_sources >= 1
    /\ "note" \notin DOMAIN status
    /\ \A k \in DOMAIN status.latest_items : status.latest_items[k] = <<>>

\* the process is in the matching loop of a source, lines 375-392
Matching == pc \in {"entry", "notify", "hitStatus", "append"}

C38_PrimingStaysArmed ==
    (NothingLastCycle /\ cfg.prime_on_first_run) =>
        /\ seenAtStart = {}
        /\ ~Matching
        /\ NotifsNow = {}
        /\ BetweenSources =>
                \A n \in DOMAIN latest_items :
                    \A i \in DOMAIN latest_items[n] :
                        latest_items[n][i].uid \in seen

\* ---------------------------------------------------------------------------
\* C39: a cycle in which run_once returns writes ok=true even if every source
\* failed; ok=false is written only by the top-level guard, and last_error is
\* reset to null by the next cycle in which no source fails.
\* ---------------------------------------------------------------------------
C39_OkFalseOnlyFromGuard ==
    [][/\ (pc = "final" /\ pc' = "sleep") =>
            /\ status'.ok
            /\ status'.last_error =
                 IF errLog = <<>> THEN None ELSE errLog[Len(errLog)].text
       /\ ("ok" \in DOMAIN status' /\ ~status'.ok) =>
            \/ pc = "guard" /\ outcome = "raised"
            \/ "ok" \in DOMAIN status /\ ~status.ok]_vars

\* C39 witness: both sources of the cycle failed, run_once returned, and the
\* status file says ok=true next to the error of the second
C39_Witness ==
    /\ CycleReturned
    /\ Len(fetchLog) = 2
    /\ Len(errLog) = 2
    /\ latest_items = EmptyObj
    /\ status.ok
    /\ status.updated_at = now
    /\ status.last_error = errLog[2].text

\* ---------------------------------------------------------------------------
\* C40: once a Disabled tick has written note=disabled_in_config into the
\* status, no later operation removes or overwrites that key: it is still
\* present after the engine has returned to Polling and completed cycles.
\* ---------------------------------------------------------------------------
C40_NoteStays ==
    [][/\ (pc = "tick" /\ pc' = "sleep") => status'.note = "disabled_in_config"
       /\ "note" \in DOMAIN status =>
            "note" \in DOMAIN status' /\ status'.note = status.note]_vars

\* C40 witness: the first tick was a Disabled one, the config was enabled
\* again, and the Polling cycle of the second tick has written its update
C40_Witness ==
    /\ CycleReturned
    /\ now = 1
    /\ cfg.enabled
    /\ fetchLog # <<>>
    /\ "note" \in DOMAIN status
    /\ status.updated_at = 1
    /\ status.checked_sources = Len(fetchLog)
    /\ "last_hit_title" \in DOMAIN status
    /\ status.note = "disabled_in_config"
====
